---- MODULE Spec2Model ----
(***************************************************************************)
(* Knowledge-graph store (SemanticMemory, src/memory_graph.py) as a state  *)
(* machine.  The store keeps a node table (_nodes), an edge list (_edges)  *)
(* and one traversal structure: a NetworkX MultiDiGraph (graph) when       *)
(* use_networkx is set, else an adjacency list (_adjacency).               *)
(*                                                                         *)
(* The retrievers of src/hybrid_retriever.py work on that store and on a   *)
(* VectorStore (_documents, _embeddings); AgenticRAG logs its decisions in *)
(* decision_history.  The VectorStore of src/tools/vector_store.py keeps   *)
(* its documents in _memory_store when ChromaDB is not installed.  file is  *)
(* the JSON file SemanticMemory.save writes and load reads.  writer is the  *)
(* statement a thread has reached inside add_node, add_edge or             *)
(* add_document; the source takes no lock, so other threads run between    *)
(* the statements of a call.                                               *)
(***************************************************************************)
EXTENDS Integers, Sequences, FiniteSets, TLC

VARIABLES use_networkx, _nodes, _edges, graph, _adjacency, ret,
          _documents, _embeddings, decision_history, _memory_store, file,
          writer

vars == <<use_networkx, _nodes, _edges, graph, _adjacency, ret,
          _documents, _embeddings, decision_history, _memory_store, file,
          writer>>

store == <<use_networkx, _nodes, _edges, graph, _adjacency>>

\* The state of the VectorStores and of AgenticRAG, the file save writes,
\* and the position of the thread that is inside a mutating call.
index ==
    <<_documents, _embeddings, decision_history, _memory_store, file, writer>>

(***************************************************************************)
(* Bounds of the model.                                                    *)
(***************************************************************************)
\* Longest edge list the model lets the store grow to.
MaxEdges == 3

\* Longest result list the model fuses: the deepest rank a result can have.
MaxResults == 4

\* Longest decision_history the model lets AgenticRAG grow to.
MaxDecisions == 1

\* Longest edge list of the stores whose citations are expanded.
MaxExpandEdges == 5

(***************************************************************************)
(* Enumerations and values.                                                *)
(***************************************************************************)
ACADEMIC_PAPER == "academic_paper"
GITHUB_PROJECT == "github_project"
COMMUNITY_DISCUSSION == "community_discussion"
CONCEPT == "concept"
AUTHOR == "author"
FRAMEWORK == "framework"

CITES == "cites"
IMPLEMENTS == "implements"
DISCUSSES == "discusses"
AUTHORED_BY == "authored_by"
USES_FRAMEWORK == "uses_framework"
INTRODUCES == "introduces"

\* Python's None (an absent optional argument).
None == "None"

\* An empty dict.
EmptyDict == [k \in {} |-> k]

GraphNode(id, type, attributes) ==
    [id |-> id, type |-> type, attributes |-> attributes]

GraphEdge(source, target, type, attributes, weight) ==
    [source |-> source, target |-> target, type |-> type,
     attributes |-> attributes, weight |-> weight]

(***************************************************************************)
(* Identifier formation: the f-strings of the ingest methods.              *)
(***************************************************************************)
\* str.lower().replace(' ', '_') on the names the model ingests.
LowerUnderscore(s) ==
    CASE s = "Ann Lee" -> "ann_lee"
      [] s = "ann lee" -> "ann_lee"
      [] s = "RAG" -> "rag"
      [] s = "rag" -> "rag"
      [] OTHER -> s

\* str.lower() on the framework names the model ingests.
Lower(s) ==
    CASE s = "LangGraph" -> "langgraph"
      [] OTHER -> s

\* str.replace('/', '_') on the project names the model ingests.
SlashToUnderscore(s) ==
    CASE s = "o/r" -> "o_r"
      [] OTHER -> s

\* hash(url) rendered by the f-string, for the urls the model ingests.
HashStr(url) ==
    CASE url = "" -> "0"
      [] url = "u1" -> "7001"
      [] OTHER -> "7002"

PaperId(arxiv_id) == "paper_" \o arxiv_id

AuthorId(author) == "author_" \o LowerUnderscore(author)

ConceptId(concept) == "concept_" \o LowerUnderscore(concept)

ProjectId(name) == "project_" \o SlashToUnderscore(name)

FrameworkId(framework) == "framework_" \o Lower(framework)

DiscussionId(platform, url) ==
    "discussion_" \o platform \o "_" \o HashStr(url)

(***************************************************************************)
(* dict helpers.                                                           *)
(***************************************************************************)
\* d[k] = v on a dict d.
DictSet(d, k, v) == [x \in (DOMAIN d) \cup {k} |-> IF x = k THEN v ELSE d[x]]

\* dict.update: the entries of new win over those of old.
DictUpdate(old, new) ==
    [x \in (DOMAIN old) \cup (DOMAIN new) |->
        IF x \in DOMAIN new THEN new[x] ELSE old[x]]

(***************************************************************************)
(* The NetworkX MultiDiGraph held in graph: node |-> attribute dict, and   *)
(* adj: <<u, v, key>> |-> edge data dict.                                  *)
(***************************************************************************)
EmptyGraph == [node |-> EmptyDict, adj |-> EmptyDict]

\* MultiDiGraph.add_node(n, **attr): creates n or updates its attributes.
NxAddNode(g, n, attr) ==
    [g EXCEPT !.node =
        DictSet(g.node, n,
                IF n \in DOMAIN g.node THEN DictUpdate(g.node[n], attr)
                ELSE attr)]

\* MultiDiGraph.add_edge(u, v, key, **attr): creates missing endpoints with
\* no attributes; an edge with the same (u, v, key) is updated, not added.
NxAddEdge(g, u, v, key, attr) ==
    LET n1 == IF u \in DOMAIN g.node THEN g.node ELSE DictSet(g.node, u, EmptyDict)
        n2 == IF v \in DOMAIN n1 THEN n1 ELSE DictSet(n1, v, EmptyDict)
        k == <<u, v, key>>
    IN [node |-> n2,
        adj |-> DictSet(g.adj, k,
                        IF k \in DOMAIN g.adj THEN DictUpdate(g.adj[k], attr)
                        ELSE attr)]

\* MultiDiGraph.successors(n) for a node n of the graph.
NxSuccessors(g, n) == {k[2] : k \in {x \in DOMAIN g.adj : x[1] = n}}

\* MultiDiGraph.get_edge_data(u, v): the data dicts of the u->v edges.
NxEdgeData(g, u, v) ==
    {g.adj[k] : k \in {x \in DOMAIN g.adj : x[1] = u /\ x[2] = v}}

(***************************************************************************)
(* The adjacency list of the fallback store: source |-> sequence, in       *)
(* insertion order, of [target, edges] entries (a dict of dicts of lists). *)
(***************************************************************************)
\* self._adjacency.get(source, {}) as a sequence of entries.
AdjGet(adj, source) == IF source \in DOMAIN adj THEN adj[source] ELSE <<>>

\* The targets of source, in insertion order.
AdjTargets(adj, source) ==
    [i \in 1..Len(AdjGet(adj, source)) |-> AdjGet(adj, source)[i].target]

\* The append below with source and target exchanged (not the code).
AdjAppendSwapped(adj, e) ==
    LET row == AdjGet(adj, e.target)
        hit == {i \in 1..Len(row) : row[i].target = e.source}
    IN DictSet(adj, e.target,
               IF hit = {} THEN Append(row, [target |-> e.source, edges |-> <<e>>])
               ELSE [i \in 1..Len(row) |->
                        IF i \in hit
                        THEN [row[i] EXCEPT !.edges = Append(@, e)]
                        ELSE row[i]])

\* self._adjacency[edge.source][edge.target].append(edge)
AdjAppend(adj, e) ==
    LET row == AdjGet(adj, e.source)
        hit == {i \in 1..Len(row) : row[i].target = e.target}
    IN DictSet(adj, e.source,
               IF hit = {} THEN Append(row, [target |-> e.target, edges |-> <<e>>])
               ELSE [i \in 1..Len(row) |->
                        IF i \in hit
                        THEN [row[i] EXCEPT !.edges = Append(@, e)]
                        ELSE row[i]])

(***************************************************************************)
(* The store as one value, so that an ingest method is a composition of    *)
(* add_node and add_edge calls.                                            *)
(***************************************************************************)
Store(n, e, g, a) == [nodes |-> n, edges |-> e, graph |-> g, adjacency |-> a]

Current == Store(_nodes, _edges, graph, _adjacency)

\* SemanticMemory.add_node, keeping an existing entry (not the code).
add_node_keep_first(s, node) ==
    [s EXCEPT
        !.nodes = IF node.id \in DOMAIN s.nodes THEN s.nodes
                  ELSE DictSet(s.nodes, node.id, node),
        !.graph = IF use_networkx
                  THEN NxAddNode(s.graph, node.id,
                           DictUpdate(node.attributes, [node_type |-> node.type]))
                  ELSE s.graph]

\* SemanticMemory.add_node
add_node(s, node) ==
    [s EXCEPT
        !.nodes = DictSet(s.nodes, node.id, node),
        !.graph = IF use_networkx
                  THEN NxAddNode(s.graph, node.id,
                           DictUpdate(node.attributes, [node_type |-> node.type]))
                  ELSE s.graph]

\* SemanticMemory.add_edge
add_edge(s, edge) ==
    [s EXCEPT
        !.edges = Append(s.edges, edge),
        !.graph = IF use_networkx
                  THEN NxAddEdge(s.graph, edge.source, edge.target, edge.type,
                           DictUpdate(edge.attributes,
                               [edge_type |-> edge.type, weight |-> edge.weight]))
                  ELSE s.graph,
        !.adjacency = IF use_networkx THEN s.adjacency
                      ELSE AdjAppend(s.adjacency, edge)]

(***************************************************************************)
(* Ingest methods.                                                         *)
(***************************************************************************)
\* The author loop of add_paper, from the i-th author on.
RECURSIVE add_paper_authors(_, _, _, _)
add_paper_authors(s, paper_id, authors, i) ==
    IF i > Len(authors) THEN s
    ELSE LET author_id == AuthorId(authors[i])
             s1 == add_node(s, GraphNode(author_id, AUTHOR, [name |-> authors[i]]))
             s2 == add_edge(s1, GraphEdge(paper_id, author_id, AUTHORED_BY,
                                          EmptyDict, 1))
         IN add_paper_authors(s2, paper_id, authors, i + 1)

\* The key_concepts loop of add_paper, from the i-th concept on.
RECURSIVE add_paper_concepts(_, _, _, _)
add_paper_concepts(s, paper_id, concepts, i) ==
    IF i > Len(concepts) THEN s
    ELSE LET concept_id == ConceptId(concepts[i])
             s1 == add_node(s, GraphNode(concept_id, CONCEPT, [name |-> concepts[i]]))
             s2 == add_edge(s1, GraphEdge(paper_id, concept_id, INTRODUCES,
                                [context |-> "paper discusses concept"], 1))
         IN add_paper_concepts(s2, paper_id, concepts, i + 1)

\* The attributes add_paper stores on the paper node.
PaperAttributes(paper_data) ==
    [arxiv_id |-> paper_data.arxiv_id,
     title |-> paper_data.title,
     authors |-> paper_data.authors]

\* SemanticMemory.add_paper: the store after the call and the id returned.
add_paper(s, paper_data) ==
    IF paper_data.arxiv_id = "" THEN [store |-> s, out |-> ""]
    ELSE LET paper_id == PaperId(paper_data.arxiv_id)
             s1 == add_node(s, GraphNode(paper_id, ACADEMIC_PAPER,
                                         PaperAttributes(paper_data)))
             s2 == add_paper_authors(s1, paper_id, paper_data.authors, 1)
             s3 == add_paper_concepts(s2, paper_id, paper_data.key_concepts, 1)
         IN [store |-> s3, out |-> paper_id]

\* The implements_papers loop of add_project.
RECURSIVE add_project_papers(_, _, _, _)
add_project_papers(s, project_id, papers, i) ==
    IF i > Len(papers) THEN s
    ELSE add_project_papers(
             add_edge(s, GraphEdge(project_id, PaperId(papers[i]), IMPLEMENTS,
                                   EmptyDict, 1)),
             project_id, papers, i + 1)

\* SemanticMemory.add_project
add_project(s, project_data) ==
    IF project_data.name = "" THEN [store |-> s, out |-> ""]
    ELSE LET project_id == ProjectId(project_data.name)
             framework == project_data.framework_type
             s1 == add_node(s, GraphNode(project_id, GITHUB_PROJECT,
                                [name |-> project_data.name,
                                 framework_type |-> framework]))
             s2 == IF framework = "" THEN s1
                   ELSE add_edge(
                            add_node(s1, GraphNode(FrameworkId(framework), FRAMEWORK,
                                                   [name |-> framework])),
                            GraphEdge(project_id, FrameworkId(framework),
                                      USES_FRAMEWORK, EmptyDict, 1))
             s3 == add_project_papers(s2, project_id,
                                      project_data.implements_papers, 1)
         IN [store |-> s3, out |-> project_id]

\* The papers_discussed loop of add_discussion.
RECURSIVE add_discussion_papers(_, _, _, _)
add_discussion_papers(s, discussion_id, papers, i) ==
    IF i > Len(papers) THEN s
    ELSE add_discussion_papers(
             add_edge(s, GraphEdge(discussion_id, PaperId(papers[i]), DISCUSSES,
                                   EmptyDict, 1)),
             discussion_id, papers, i + 1)

\* SemanticMemory.add_discussion (no identity check: url and platform may be "").
add_discussion(s, discussion_data) ==
    LET discussion_id == DiscussionId(discussion_data.platform, discussion_data.url)
        s1 == add_node(s, GraphNode(discussion_id, COMMUNITY_DISCUSSION,
                           [platform |-> discussion_data.platform,
                            title |-> discussion_data.title,
                            url |-> discussion_data.url]))
        s2 == add_discussion_papers(s1, discussion_id,
                                    discussion_data.papers_discussed, 1)
    IN [store |-> s2, out |-> discussion_id]

\* SemanticMemory.add_citation_edge
add_citation_edge(s, citing_paper, cited_paper) ==
    add_edge(s, GraphEdge(PaperId(citing_paper), PaperId(cited_paper), CITES,
                          EmptyDict, 1))

(***************************************************************************)
(* Queries.  A call's outcome is [raised, out]: the exception it raised    *)
(* ("none" when it returned) and the value it returned.                    *)
(***************************************************************************)
Returned(v) == [raised |-> "none", out |-> v]

Raised(x) == [raised |-> x, out |-> None]

\* One pass of the NetworkX branch over a frontier of graph nodes: the
\* successors added to neighbors, and the next frontier.
NxHop(g, frontier, edge_type) ==
    [added |-> UNION {{v \in NxSuccessors(g, c) :
                          \/ edge_type = None
                          \/ \E d \in NxEdgeData(g, c, v) : d.edge_type = edge_type}
                      : c \in frontier},
     next |-> UNION {NxSuccessors(g, c) : c \in frontier}]

\* One pass of the adjacency-list branch over a frontier.
AdjHop(adj, frontier, edge_type) ==
    [added |-> UNION {{AdjGet(adj, c)[i].target : i \in
                          {j \in 1..Len(AdjGet(adj, c)) :
                              \/ edge_type = None
                              \/ \E m \in 1..Len(AdjGet(adj, c)[j].edges) :
                                    AdjGet(adj, c)[j].edges[m].type = edge_type}}
                      : c \in frontier},
     next |-> UNION {{AdjGet(adj, c)[i].target : i \in 1..Len(AdjGet(adj, c))}
                     : c \in frontier}]

\* The loop of get_neighbors with each pass overwriting neighbors instead of
\* adding to it (not the code).
RECURSIVE get_neighbors_loop_overwrite(_, _, _, _, _)
get_neighbors_loop_overwrite(s, frontier, neighbors, edge_type, remaining) ==
    IF remaining = 0 THEN Returned(neighbors)
    ELSE IF use_networkx /\ \E c \in frontier : c \notin DOMAIN s.graph.node
    THEN Raised("NetworkXError")
    ELSE LET hop == IF use_networkx THEN NxHop(s.graph, frontier, edge_type)
                    ELSE AdjHop(s.adjacency, frontier, edge_type)
         IN get_neighbors_loop_overwrite(s, hop.next, hop.added, edge_type,
                                         remaining - 1)

\* The loop of get_neighbors with `remaining` passes left. graph.successors
\* raises NetworkXError for a node that is not in the graph.
RECURSIVE get_neighbors_loop(_, _, _, _, _)
get_neighbors_loop(s, frontier, neighbors, edge_type, remaining) ==
    IF remaining = 0 THEN Returned(neighbors)
    ELSE IF use_networkx /\ \E c \in frontier : c \notin DOMAIN s.graph.node
    THEN Raised("NetworkXError")
    ELSE LET hop == IF use_networkx THEN NxHop(s.graph, frontier, edge_type)
                    ELSE AdjHop(s.adjacency, frontier, edge_type)
         IN get_neighbors_loop(s, hop.next, neighbors \cup hop.added, edge_type,
                               remaining - 1)

\* SemanticMemory.get_neighbors; the returned list is an unordered listing of
\* a set, modelled as the set.
get_neighbors(s, node_id, edge_type, max_depth) ==
    get_neighbors_loop(s, {node_id}, {}, edge_type, max_depth)

\* The inner loop of the fallback BFS: the unvisited targets of the dequeued
\* node are marked visited and enqueued with their paths, in insertion order.
RECURSIVE bfs_expand(_, _, _, _, _)
bfs_expand(targets, i, path, queue, visited) ==
    IF i > Len(targets) THEN [queue |-> queue, visited |-> visited]
    ELSE IF targets[i] \in visited
    THEN bfs_expand(targets, i + 1, path, queue, visited)
    ELSE bfs_expand(targets, i + 1, path,
                    Append(queue, [node |-> targets[i],
                                   path |-> Append(path, targets[i])]),
                    visited \cup {targets[i]})

\* The while loop of the fallback BFS.
RECURSIVE bfs(_, _, _, _)
bfs(adj, target, queue, visited) ==
    IF queue = <<>> THEN <<>>
    ELSE IF Head(queue).node = target THEN Head(queue).path
    ELSE LET x == bfs_expand(AdjTargets(adj, Head(queue).node), 1,
                             Head(queue).path, Tail(queue), visited)
         IN bfs(adj, target, x.queue, x.visited)

\* The simple paths of g that start at source and have n edges.
RECURSIVE NxSimplePaths(_, _, _)
NxSimplePaths(g, source, n) ==
    IF n = 0 THEN {<<source>>}
    ELSE {Append(p, v) : <<p, v>> \in
            {x \in NxSimplePaths(g, source, n - 1) \X DOMAIN g.node :
                /\ x[2] \in NxSuccessors(g, x[1][Len(x[1])])
                /\ \A i \in 1..Len(x[1]) : x[1][i] # x[2]}}

\* The paths of n edges from source to target, for the least n that has one.
RECURSIVE NxShortest(_, _, _, _)
NxShortest(g, source, target, n) ==
    IF n >= Cardinality(DOMAIN g.node) THEN {}
    ELSE LET hit == {p \in NxSimplePaths(g, source, n) : p[Len(p)] = target}
         IN IF hit # {} THEN hit ELSE NxShortest(g, source, target, n + 1)

\* What nx.shortest_path(graph, source, target) in the try block can give:
\* NodeNotFound and NetworkXNoPath are caught and become []; otherwise a
\* path with the fewest edges (which one is the library's choice).
NxShortestPathOutcomes(g, source, target) ==
    IF source \notin DOMAIN g.node \/ target \notin DOMAIN g.node THEN {<<>>}
    ELSE IF NxShortest(g, source, target, 0) = {} THEN {<<>>}
    ELSE NxShortest(g, source, target, 0)

\* SemanticMemory.find_shortest_path: the values the call can return.
find_shortest_path(s, source, target) ==
    IF use_networkx THEN NxShortestPathOutcomes(s.graph, source, target)
    ELSE {bfs(s.adjacency, target, <<[node |-> source, path |-> <<source>>]>>,
              {source})}

\* Sum of the weight entries of a set of edge data dicts.
RECURSIVE SumWeights(_, _)
SumWeights(g, keys) ==
    IF keys = {} THEN 0
    ELSE LET k == CHOOSE x \in keys : TRUE
         IN g.adj[k].weight + SumWeights(g, keys \ {k})

\* The weight of u -> v in the matrix nx.pagerank(self.graph) works on: the
\* weights of the parallel u -> v edges of the MultiDiGraph, added up.
NxPagerankWeight(g, u, v) ==
    SumWeights(g, {k \in DOMAIN g.adj : k[1] = u /\ k[2] = v})

\* What the pair u -> v counts for in get_pagerank: its summed weight in the
\* NetworkX branch, one per distinct target in the fallback branch.
ImportanceWeight(s, u, v) ==
    IF use_networkx THEN NxPagerankWeight(s.graph, u, v)
    ELSE IF \E i \in 1..Len(AdjGet(s.adjacency, u)) :
                AdjGet(s.adjacency, u)[i].target = v
         THEN 1 ELSE 0

\* The number of u -> v edges of the given type in the traversal structure.
TraversalEdgeCount(s, u, v, type) ==
    IF use_networkx
    THEN Cardinality({k \in DOMAIN s.graph.adj :
                        /\ k[1] = u /\ k[2] = v
                        /\ s.graph.adj[k].edge_type = type})
    ELSE Cardinality({<<i, m>> \in
            (1..Len(AdjGet(s.adjacency, u))) \X (1..Len(s.edges)) :
                /\ AdjGet(s.adjacency, u)[i].target = v
                /\ m <= Len(AdjGet(s.adjacency, u)[i].edges)
                /\ AdjGet(s.adjacency, u)[i].edges[m].type = type})

\* SemanticMemory.get_pagerank.  Fallback branch: the dict it builds, one
\* entry per node of the node table holding the number of adjacency entries
\* (distinct targets) of that node.  NetworkX branch: nx.pagerank(self.graph),
\* which by the library's contract gives every node of the graph a positive
\* score, the scores adding up to 1; the model keeps the key set.
get_pagerank(s) ==
    IF use_networkx
    THEN [backend |-> "networkx", nodes |-> DOMAIN s.graph.node]
    ELSE [backend |-> "fallback",
          centrality |-> [node_id \in DOMAIN s.nodes |->
                             Len(AdjGet(s.adjacency, node_id))]]

(***************************************************************************)
(* Python values the scoring code works with.  Scores are kept in tenths   *)
(* (10 is 1.0, 5 is 0.5, 3 is 0.3).                                        *)
(***************************************************************************)
\* str.startswith
StartsWith(str, prefix) ==
    Len(str) >= Len(prefix) /\ SubSeq(str, 1, Len(prefix)) = prefix

\* str.replace(old, ""): every occurrence of old is removed, left to right.
RECURSIVE StrRemove(_, _)
StrRemove(str, old) ==
    IF Len(str) < Len(old) \/ str = "" THEN str
    ELSE IF SubSeq(str, 1, Len(old)) = old
    THEN StrRemove(SubSeq(str, Len(old) + 1, Len(str)), old)
    ELSE SubSeq(str, 1, 1) \o StrRemove(SubSeq(str, 2, Len(str)), old)

\* The orders list(a_set) can enumerate a set in.
RECURSIVE Listings(_)
Listings(S) ==
    IF S = {} THEN {<<>>}
    ELSE UNION {{<<x>> \o l : l \in Listings(S \ {x})} : x \in S}

\* list(a_set) when sets are enumerated in the order ord.
ListBy(ord, S) == SelectSeq(ord, LAMBDA x : x \in S)

\* d[key] += x on a defaultdict(float): a dict in insertion order, kept as a
\* sequence of [key, score].
DictAdd(d, key, x) ==
    IF \E i \in 1..Len(d) : d[i].key = key
    THEN [i \in 1..Len(d) |->
            IF d[i].key = key THEN [key |-> key, score |-> d[i].score + x]
            ELSE d[i]]
    ELSE Append(d, [key |-> key, score |-> x])

\* for key in keys: d[key] += x
RECURSIVE DictAddAll(_, _, _)
DictAddAll(d, keys, x) ==
    IF keys = <<>> THEN d
    ELSE DictAddAll(DictAdd(d, Head(keys), x), Tail(keys), x)

\* A sort by ascending score (not the code).
RECURSIVE SortByScoreAscending(_)
SortByScoreAscending(list) ==
    IF list = <<>> THEN <<>>
    ELSE LET front == SortByScoreAscending(SubSeq(list, 1, Len(list) - 1))
             e == list[Len(list)]
             pos == Cardinality({i \in 1..Len(front) : front[i].score <= e.score})
         IN SubSeq(front, 1, pos) \o <<e>> \o SubSeq(front, pos + 1, Len(front))

\* list.sort(key=score, reverse=True): descending and stable, so entries of
\* equal score keep their order.
RECURSIVE SortByScore(_)
SortByScore(list) ==
    IF list = <<>> THEN <<>>
    ELSE LET front == SortByScore(SubSeq(list, 1, Len(list) - 1))
             e == list[Len(list)]
             pos == Cardinality({i \in 1..Len(front) : front[i].score >= e.score})
         IN SubSeq(front, 1, pos) \o <<e>> \o SubSeq(front, pos + 1, Len(front))

\* list[:n] for n >= 0
Take(list, n) == SubSeq(list, 1, IF n < Len(list) THEN n ELSE Len(list))

\* Every id the store mentions: the node table and the ends of the edges.
StoreIds(s) ==
    DOMAIN s.nodes \cup {s.edges[i].source : i \in 1..Len(s.edges)}
                   \cup {s.edges[i].target : i \in 1..Len(s.edges)}

\* The shared-concept loops of find_related_papers: for each concept, the
\* listing of get_neighbors(concept, INTRODUCES), one after the other.
RECURSIVE shared_concept_papers(_, _, _)
shared_concept_papers(s, concepts, ord) ==
    IF concepts = <<>> THEN <<>>
    ELSE ListBy(ord, get_neighbors(s, Head(concepts), INTRODUCES, 1).out)
            \o shared_concept_papers(s, Tail(concepts), ord)

\* SemanticMemory.find_related_papers, sets being listed in the order ord.
find_related_papers(s, paper_id, top_k, ord) ==
    LET node_id == PaperId(paper_id)
        cited == get_neighbors(s, node_id, CITES, 1)
        concept_neighbors == get_neighbors(s, node_id, INTRODUCES, 1)
    IN IF cited.raised # "none" THEN Raised(cited.raised)
       ELSE LET direct == DictAddAll(<<>>, ListBy(ord, cited.out), 10)
                papers == shared_concept_papers(
                              s, ListBy(ord, concept_neighbors.out), ord)
                related == DictAddAll(direct,
                              SelectSeq(papers, LAMBDA paper :
                                  paper # node_id /\ StartsWith(paper, "paper_")),
                              5)
                related_list == [i \in 1..Len(related) |->
                                    [id |-> StrRemove(related[i].key, "paper_"),
                                     score |-> related[i].score]]
            IN Returned(Take(SortByScore(related_list), top_k))

(***************************************************************************)
(* Retrieval (src/hybrid_retriever.py).  A RetrievalResult is a record     *)
(* [id, content, score, method, rank, metadata].  Graph scores are in      *)
(* tenths.                                                                 *)
(***************************************************************************)
\* RetrievalMethod
VECTOR == "vector"
GRAPH == "graph"
KEYWORD == "keyword"
HYBRID == "hybrid"

RetrievalResult(id, content, score, method, rank, metadata) ==
    [id |-> id, content |-> content, score |-> score, method |-> method,
     rank |-> rank, metadata |-> metadata]

\* str.lower on one character.
LowerChar(c) ==
    CASE c = "A" -> "a" [] c = "B" -> "b" [] c = "C" -> "c" [] c = "D" -> "d"
      [] c = "E" -> "e" [] c = "F" -> "f" [] c = "G" -> "g" [] c = "H" -> "h"
      [] c = "I" -> "i" [] c = "J" -> "j" [] c = "K" -> "k" [] c = "L" -> "l"
      [] c = "M" -> "m" [] c = "N" -> "n" [] c = "O" -> "o" [] c = "P" -> "p"
      [] c = "Q" -> "q" [] c = "R" -> "r" [] c = "S" -> "s" [] c = "T" -> "t"
      [] c = "U" -> "u" [] c = "V" -> "v" [] c = "W" -> "w" [] c = "X" -> "x"
      [] c = "Y" -> "y" [] c = "Z" -> "z"
      [] OTHER -> c

\* str.lower
RECURSIVE StrLower(_)
StrLower(str) ==
    IF str = "" THEN ""
    ELSE LowerChar(SubSeq(str, 1, 1)) \o StrLower(SubSeq(str, 2, Len(str)))

\* str.split(): the words between the blanks, from position i on, `word`
\* being the word read so far.
RECURSIVE SplitFrom(_, _, _)
SplitFrom(str, word, i) ==
    IF i > Len(str) THEN (IF word = "" THEN <<>> ELSE <<word>>)
    ELSE IF SubSeq(str, i, i) = " "
    THEN (IF word = "" THEN <<>> ELSE <<word>>) \o SplitFrom(str, "", i + 1)
    ELSE SplitFrom(str, word \o SubSeq(str, i, i), i + 1)

stop_words == {"the", "a", "an", "and", "or", "but", "in", "on", "at", "to", "for"}

\* GraphRetriever._extract_concepts
_extract_concepts(query) ==
    SelectSeq(SplitFrom(StrLower(query), "", 1),
              LAMBDA w : Len(w) > 3 /\ w \notin stop_words)

\* The concept loop of _find_relevant_nodes: each concept whose node is in
\* the node table gives +1.0 to every "paper_" id among its neighbours.
RECURSIVE concept_matches(_, _, _, _)
concept_matches(s, relevance, concepts, ord) ==
    IF concepts = <<>> THEN relevance
    ELSE LET concept_id == ConceptId(Head(concepts))
             found == IF concept_id \in DOMAIN s.nodes
                      THEN SelectSeq(
                               ListBy(ord, get_neighbors(s, concept_id, None, 1).out),
                               LAMBDA node_id : StartsWith(node_id, "paper_"))
                      ELSE <<>>
         IN concept_matches(s, DictAddAll(relevance, found, 10),
                            Tail(concepts), ord)

\* The sources of the CITES edges into node_id, in edge-list order.
citing_sources(s, node_id) ==
    LET hits == SelectSeq([i \in 1..Len(s.edges) |-> s.edges[i]],
                          LAMBDA edge : edge.target = node_id /\ edge.type = CITES)
    IN [i \in 1..Len(hits) |-> hits[i].source]

\* The citation loop of _find_relevant_nodes over the keys found by concept
\* matching: +0.5 to the first three listed CITES neighbours of each key,
\* +0.3 to the source of each CITES edge into it.
RECURSIVE traverse_citations(_, _, _, _)
traverse_citations(s, relevance, keys, ord) ==
    IF keys = <<>> THEN relevance
    ELSE LET node_id == Head(keys)
             cited == ListBy(ord, get_neighbors(s, node_id, CITES, 1).out)
             r1 == DictAddAll(relevance, Take(cited, 3), 5)
             r2 == DictAddAll(r1, citing_sources(s, node_id), 3)
         IN traverse_citations(s, r2, Tail(keys), ord)

\* GraphRetriever._find_relevant_nodes, sets being listed in the order ord.
_find_relevant_nodes(s, concepts, ord) ==
    LET matched == concept_matches(s, <<>>, concepts, ord)
    IN traverse_citations(s, matched,
                          [i \in 1..Len(matched) |-> matched[i].key], ord)

\* The ids of the sets _find_relevant_nodes lists: the neighbours of the
\* matched concept nodes and the CITES neighbours of those.
ListedIds(s, concepts) ==
    LET matched == {ConceptId(concepts[i]) : i \in 1..Len(concepts)}
                       \cap DOMAIN s.nodes
        first == UNION {get_neighbors(s, c, None, 1).out : c \in matched}
    IN first \cup UNION {get_neighbors(s, n, CITES, 1).out : n \in first}

\* GraphRetriever.search, sets being listed in the order ord.
graph_search(s, query, top_k, search_depth, ord) ==
    LET query_concepts == _extract_concepts(query)
        relevant_nodes == _find_relevant_nodes(s, query_concepts, ord)
        scored_results == SortByScore(
            SelectSeq(relevant_nodes, LAMBDA e : e.key \in DOMAIN s.nodes))
        top == Take(scored_results, top_k)
    IN [rank \in 1..Len(top) |->
           RetrievalResult(top[rank].key, s.nodes[top[rank].key].attributes,
                           top[rank].score, GRAPH, rank,
                           [search_depth |-> search_depth,
                            concepts_matched |-> query_concepts])]

\* The results GraphRetriever.search can return.
graph_search_outcomes(s, query, top_k, search_depth) ==
    {graph_search(s, query, top_k, search_depth, ord) :
        ord \in Listings(ListedIds(s, _extract_concepts(query)))}

(***************************************************************************)
(* VectorStore.  An embedding is a function of the text alone (128 values  *)
(* read off its SHA-256 digest), so the model keeps the text it was made   *)
(* from; similarities are in millionths.                                   *)
(***************************************************************************)
\* content.get("text", content.get("title", content.get("abstract", "")))
ContentText(content) ==
    IF "text" \in DOMAIN content THEN content.text
    ELSE IF "title" \in DOMAIN content THEN content.title
    ELSE IF "abstract" \in DOMAIN content THEN content.abstract
    ELSE ""

\* VectorStore._generate_embedding
_generate_embedding(text) == [sha256_of |-> text]

\* VectorStore._cosine_similarity of a query embedding and a document
\* embedding, for the texts of the model: the value the source computes,
\* in millionths, rounded down.
_cosine_similarity(vec1, vec2) ==
    CASE vec1.sha256_of = "agents" /\ vec2.sha256_of = "t1" -> 819198
      [] vec1.sha256_of = "agents" /\ vec2.sha256_of = "graphs" -> 770789
      [] vec1.sha256_of = "agents" /\ vec2.sha256_of = "rag" -> 807451
      [] vec1.sha256_of = "agents" /\ vec2.sha256_of = "t1 " -> 704050
      [] vec1.sha256_of = "agents" /\ vec2.sha256_of = "t2 " -> 735106
      [] vec1.sha256_of = "agents" /\ vec2.sha256_of = "o/r " -> 865345
      [] vec1.sha256_of = "cite agents" /\ vec2.sha256_of = "t1 " -> 687905
      [] vec1.sha256_of = "cite agents" /\ vec2.sha256_of = "t2 " -> 596801
      [] vec1.sha256_of = "cite agents" /\ vec2.sha256_of = "o/r " -> 738709
      [] vec1.sha256_of = "The Agents survey" /\ vec2.sha256_of = "t1" -> 823899
      [] vec1.sha256_of = "The Agents survey" /\ vec2.sha256_of = "graphs" -> 755800
      [] vec1.sha256_of = "The Agents survey" /\ vec2.sha256_of = "rag" -> 765300
      [] vec1.sha256_of = "which papers cite 2506.12508?"
            /\ vec2.sha256_of = "t1" -> 881858
      [] vec1.sha256_of = "which papers cite 2506.12508?"
            /\ vec2.sha256_of = "graphs" -> 798527
      [] vec1.sha256_of = "which papers cite 2506.12508?"
            /\ vec2.sha256_of = "rag" -> 744656

\* The VectorStore as a value: _documents, a dict, and _embeddings, a dict
\* in insertion order kept as a sequence of [key, embedding].
Vectors(d, e) == [documents |-> d, embeddings |-> e]

CurrentVectors == Vectors(_documents, _embeddings)

\* VectorStore.add_document
add_document(v, doc_id, content) ==
    LET embedding == _generate_embedding(ContentText(content))
        entry == [key |-> doc_id, embedding |-> embedding]
    IN Vectors(DictSet(v.documents, doc_id, content),
               IF \E i \in 1..Len(v.embeddings) : v.embeddings[i].key = doc_id
               THEN [i \in 1..Len(v.embeddings) |->
                        IF v.embeddings[i].key = doc_id THEN entry
                        ELSE v.embeddings[i]]
               ELSE Append(v.embeddings, entry))

\* VectorStore.search
vector_search(v, query, top_k, min_score) ==
    IF v.embeddings = <<>> THEN <<>>
    ELSE LET query_embedding == _generate_embedding(query)
             scored == [i \in 1..Len(v.embeddings) |->
                          [key |-> v.embeddings[i].key,
                           score |-> _cosine_similarity(query_embedding,
                                                        v.embeddings[i].embedding)]]
             similarities == SortByScore(
                 SelectSeq(scored, LAMBDA e : e.score >= min_score))
             top == Take(similarities, top_k)
         IN [rank \in 1..Len(top) |->
                RetrievalResult(top[rank].key,
                                IF top[rank].key \in DOMAIN v.documents
                                THEN v.documents[top[rank].key] ELSE EmptyDict,
                                top[rank].score, VECTOR, rank,
                                [similarity_metric |-> "cosine"])]

(***************************************************************************)
(* HybridRetriever.  A fused score weight / (rrf_k + rank) is kept as an   *)
(* integer: weights are in tenths and 1 is RrfScale, a common multiple of  *)
(* rrf_k + 1 .. rrf_k + MaxResults, so the division is exact for every     *)
(* rank up to MaxResults.                                                  *)
(***************************************************************************)
rrf_k == 60

RECURSIVE Gcd(_, _)
Gcd(a, b) == IF b = 0 THEN a ELSE Gcd(b, a % b)

RECURSIVE LcmUpTo(_)
LcmUpTo(rank) ==
    IF rank = 0 THEN 1
    ELSE (LcmUpTo(rank - 1) \div Gcd(LcmUpTo(rank - 1), rrf_k + rank))
            * (rrf_k + rank)

RrfScale == LcmUpTo(MaxResults)

\* weight / (self.rrf_k + result.rank)
ReciprocalRank(weight, rank) == weight * (RrfScale \div (rrf_k + rank))

\* d[key] = x on a dict kept in insertion order.
DictPut(d, key, x) ==
    IF \E i \in 1..Len(d) : d[i].key = key
    THEN [i \in 1..Len(d) |->
            IF d[i].key = key THEN [key |-> key, score |-> x] ELSE d[i]]
    ELSE Append(d, [key |-> key, score |-> x])

\* A fusion loop that assigns the reciprocal rank instead of adding it (not
\* the code).
RECURSIVE rrf_loop_assign(_, _, _)
rrf_loop_assign(scores, results, weight) ==
    IF results = <<>> THEN scores
    ELSE rrf_loop_assign(
             DictPut(scores, Head(results).id,
                     ReciprocalRank(weight, Head(results).rank)),
             Tail(results), weight)

\* One loop of _reciprocal_rank_fusion:
\* for result in results: scores[result.id] += weight / (rrf_k + result.rank)
RECURSIVE rrf_loop(_, _, _)
rrf_loop(scores, results, weight) ==
    IF results = <<>> THEN scores
    ELSE rrf_loop(DictAdd(scores, Head(results).id,
                          ReciprocalRank(weight, Head(results).rank)),
                  Tail(results), weight)

\* A fusion that takes the graph list's reciprocal ranks off the score
\* instead of adding them (not the code).
_reciprocal_rank_fusion_minus(vector_results, graph_results, vector_weight, graph_weight) ==
    rrf_loop(rrf_loop(<<>>, vector_results, vector_weight),
             graph_results, 0 - graph_weight)

\* HybridRetriever._reciprocal_rank_fusion: the dict it returns.
_reciprocal_rank_fusion(vector_results, graph_results, vector_weight, graph_weight) ==
    rrf_loop(rrf_loop(<<>>, vector_results, vector_weight),
             graph_results, graph_weight)

\* Python truth of a dict: {} is false.
Truthy(content) == DOMAIN content # {}

\* The first result of a list with the given id, as a sequence of 0 or 1.
FirstWithId(results, doc_id) ==
    Take(SelectSeq(results, LAMBDA result : result.id = doc_id), 1)

\* The body of the final loop of HybridRetriever.search for one fused entry:
\* the content and metadata found for it (content from the vector list, and
\* from the graph list when that content is None or empty), and whether the
\* content found is true, that is whether the entry is appended.
hybrid_entry(doc_id, rrf_score, vector_results, graph_results) ==
    LET vhit == FirstWithId(vector_results, doc_id)
        ghit == FirstWithId(graph_results, doc_id)
        vtrue == vhit # <<>> /\ Truthy(vhit[1].content)
        look == ~vtrue /\ ghit # <<>>
        metadata1 == IF vhit # <<>>
                     THEN [rrf_score |-> rrf_score,
                           vector_score |-> vhit[1].score,
                           vector_rank |-> vhit[1].rank]
                     ELSE [rrf_score |-> rrf_score]
    IN [content |-> IF look THEN ghit[1].content
                    ELSE IF vhit # <<>> THEN vhit[1].content ELSE EmptyDict,
        appended |-> IF look THEN Truthy(ghit[1].content) ELSE vtrue,
        metadata |-> IF look
                     THEN DictUpdate(metadata1,
                                     [graph_score |-> ghit[1].score,
                                      graph_rank |-> ghit[1].rank])
                     ELSE metadata1]

\* HybridRetriever.search, given what the graph search returned.
hybrid_merge(vector_results, graph_results, top_k, vector_weight, graph_weight) ==
    LET rrf_scores == _reciprocal_rank_fusion(vector_results, graph_results,
                                              vector_weight, graph_weight)
        top == Take(SortByScore(rrf_scores), top_k)
        entry(rank) == hybrid_entry(top[rank].key, top[rank].score,
                                    vector_results, graph_results)
        appended == SelectSeq([rank \in 1..Len(top) |-> rank],
                              LAMBDA rank : entry(rank).appended)
    IN [i \in 1..Len(appended) |->
           RetrievalResult(top[appended[i]].key, entry(appended[i]).content,
                           top[appended[i]].score, HYBRID, appended[i],
                           entry(appended[i]).metadata)]

\* The results HybridRetriever.search can return.
hybrid_search_outcomes(s, v, query, top_k, vector_weight, graph_weight) ==
    {hybrid_merge(vector_search(v, query, top_k * 2, 0), graph_results,
                  top_k, vector_weight, graph_weight) :
        graph_results \in graph_search_outcomes(s, query, top_k * 2, 2)}

(***************************************************************************)
(* AgenticRAG.  Confidences are in hundredths, weights in tenths.          *)
(***************************************************************************)
\* sub in str
Contains(str, sub) ==
    \E i \in 1..(Len(str) - Len(sub) + 1) : SubSeq(str, i, i + Len(sub) - 1) = sub

\* any(kw in query_lower for kw in keywords)
ContainsAny(str, keywords) == \E kw \in keywords : Contains(str, kw)

\* The values RetrievalMethod(hint) accepts; any other raises ValueError.
RetrievalMethods == {VECTOR, GRAPH, KEYWORD, HYBRID}

\* A policy that tests the identifier markers before the citation words (not
\* the code).
_decide_method_identifier_first(query, hint) ==
    LET query_lower == StrLower(query)
    IN IF hint # None /\ hint # ""
       THEN [method |-> hint,
             reasoning |-> "User specified method: " \o hint,
             confidence |-> 100]
       ELSE IF Contains(query_lower, "arxiv") \/ Contains(query_lower, "paper:")
       THEN [method |-> VECTOR,
             reasoning |-> "Query targets specific papers",
             confidence |-> 90]
       ELSE IF ContainsAny(query_lower, {"cite", "citation", "reference", "related to"})
       THEN [method |-> GRAPH,
             reasoning |-> "Query asks for citation relationships",
             confidence |-> 80]
       ELSE IF ContainsAny(query_lower, {"vs", "versus", "compare", "difference"})
       THEN [method |-> HYBRID,
             reasoning |-> "Comparative query benefits from both methods",
             vector_weight |-> 5, graph_weight |-> 5, confidence |-> 70]
       ELSE IF ContainsAny(query_lower, {"overview", "survey", "state of the art",
                                         "recent advances"})
       THEN [method |-> HYBRID,
             reasoning |-> "Exploratory query needs breadth and depth",
             vector_weight |-> 4, graph_weight |-> 6, confidence |-> 75]
       ELSE [method |-> HYBRID,
             reasoning |-> "Default: use hybrid for comprehensive results",
             vector_weight |-> 5, graph_weight |-> 5, confidence |-> 50]

\* AgenticRAG._decide_method for a hint in RetrievalMethods or no hint (None
\* and "" are both false).
_decide_method(query, hint) ==
    LET query_lower == StrLower(query)
    IN IF hint # None /\ hint # ""
       THEN [method |-> hint,
             reasoning |-> "User specified method: " \o hint,
             confidence |-> 100]
       ELSE IF ContainsAny(query_lower, {"cite", "citation", "reference", "related to"})
       THEN [method |-> GRAPH,
             reasoning |-> "Query asks for citation relationships",
             confidence |-> 80]
       ELSE IF Contains(query_lower, "arxiv") \/ Contains(query_lower, "paper:")
       THEN [method |-> VECTOR,
             reasoning |-> "Query targets specific papers",
             confidence |-> 90]
       ELSE IF ContainsAny(query_lower, {"vs", "versus", "compare", "difference"})
       THEN [method |-> HYBRID,
             reasoning |-> "Comparative query benefits from both methods",
             vector_weight |-> 5, graph_weight |-> 5, confidence |-> 70]
       ELSE IF ContainsAny(query_lower, {"overview", "survey", "state of the art",
                                         "recent advances"})
       THEN [method |-> HYBRID,
             reasoning |-> "Exploratory query needs breadth and depth",
             vector_weight |-> 4, graph_weight |-> 6, confidence |-> 75]
       ELSE [method |-> HYBRID,
             reasoning |-> "Default: use hybrid for comprehensive results",
             vector_weight |-> 5, graph_weight |-> 5, confidence |-> 50]

\* decision.get(key, 0.5)
WeightOf(decision, key) == IF key \in DOMAIN decision THEN decision[key] ELSE 5

\* The result lists the retrieval branch of AgenticRAG.retrieve can give:
\* vector for VECTOR, graph for GRAPH, hybrid for every other method.
retrieve_results(s, v, query, top_k, decision) ==
    IF decision.method = VECTOR THEN {vector_search(v, query, top_k, 0)}
    ELSE IF decision.method = GRAPH THEN graph_search_outcomes(s, query, top_k, 2)
    ELSE hybrid_search_outcomes(s, v, query, top_k,
                                WeightOf(decision, "vector_weight"),
                                WeightOf(decision, "graph_weight"))

\* AgenticRAG.retrieve: the outcomes of a call, each with the value returned
\* (results, decision_info) and the entry appended to decision_history.  The
\* timestamp is the clock's reading, kept as one symbolic value.
retrieve(s, v, query, top_k, method_hint) ==
    IF method_hint # None /\ method_hint # "" /\ method_hint \notin RetrievalMethods
    THEN {[raised |-> "ValueError", out |-> None, log |-> <<>>]}
    ELSE LET decision == _decide_method(query, method_hint)
         IN {[raised |-> "none",
              out |-> [results |-> results,
                       decision_info |-> [method_used |-> decision.method,
                                          reasoning |-> decision.reasoning,
                                          confidence |-> decision.confidence]],
              log |-> <<[query |-> query, decision |-> decision,
                         results_count |-> Len(results),
                         timestamp |-> "now"]>>] :
             results \in retrieve_results(s, v, query, top_k, decision)}

(***************************************************************************)
(* A mutating call statement by statement.                                 *)
(***************************************************************************)
\* No thread is inside a mutating call.
Idle == [at |-> "idle"]

\* self._nodes[node.id] = node
add_node_table(s, node) == [s EXCEPT !.nodes = DictSet(s.nodes, node.id, node)]

\* self._edges.append(edge)
add_edge_list(s, edge) == [s EXCEPT !.edges = Append(s.edges, edge)]

\* The rest of add_node after its first statement: the graph update.
add_node_graph(s, node) == [add_node(s, node) EXCEPT !.nodes = s.nodes]

\* The rest of add_edge after its first statement: the traversal update.
add_edge_traversal(s, edge) == [add_edge(s, edge) EXCEPT !.edges = s.edges]

\* self._documents[doc_id] = content
add_document_store(v, doc_id, content) ==
    Vectors(DictSet(v.documents, doc_id, content), v.embeddings)

\* The rest of add_document: text.encode raises AttributeError for a text
\* that is None, else the embedding is stored.
add_document_embed(v, doc_id, content) ==
    IF ContentText(content) = None THEN Raised("AttributeError")
    ELSE Returned(Vectors(v.documents, add_document(v, doc_id, content).embeddings))

(***************************************************************************)
(* Persistence.  The file is [state, data]: absent, json (data is the      *)
(* parsed content) or garbage (not JSON).  Enum members are kept as their  *)
(* values throughout, so type.value is the member itself and NodeType(v),  *)
(* EdgeType(v) are lookups that raise ValueError for a value of no member. *)
(***************************************************************************)
NoFile == [state |-> "absent", data |-> EmptyDict]

NodeTypeValues ==
    {ACADEMIC_PAPER, GITHUB_PROJECT, COMMUNITY_DISCUSSION, CONCEPT, AUTHOR,
     FRAMEWORK, "technique", "dataset", "metric"}

EdgeTypeValues ==
    {CITES, IMPLEMENTS, DISCUSSES, "related_to", AUTHORED_BY, USES_FRAMEWORK,
     INTRODUCES, "evaluates_on", "optimizes", "similar_to"}

\* GraphNode.to_dict
GraphNode_to_dict(node) ==
    [id |-> node.id, type |-> node.type, attributes |-> node.attributes]

\* GraphEdge.to_dict
GraphEdge_to_dict(edge) ==
    [source |-> edge.source, target |-> edge.target, type |-> edge.type,
     attributes |-> edge.attributes, weight |-> edge.weight]

\* SemanticMemory._count_node_types
_count_node_types(s) ==
    [t \in {s.nodes[n].type : n \in DOMAIN s.nodes} |->
        Cardinality({n \in DOMAIN s.nodes : s.nodes[n].type = t})]

\* SemanticMemory._count_edge_types
_count_edge_types(s) ==
    [t \in {s.edges[i].type : i \in 1..Len(s.edges)} |->
        Cardinality({i \in 1..Len(s.edges) : s.edges[i].type = t})]

\* SemanticMemory.to_dict, _nodes.values() being listed in the order ord.
memory_to_dict(s, ord) ==
    [nodes |-> [i \in 1..Len(ord) |-> GraphNode_to_dict(s.nodes[ord[i]])],
     edges |-> [i \in 1..Len(s.edges) |-> GraphEdge_to_dict(s.edges[i])],
     stats |-> [node_count |-> Cardinality(DOMAIN s.nodes),
                edge_count |-> Len(s.edges),
                node_types |-> _count_node_types(s),
                edge_types |-> _count_edge_types(s)]]

\* The dicts to_dict can return: the model keeps _nodes without its
\* insertion order, so every order of the nodes is allowed.
to_dict_outcomes(s) == {memory_to_dict(s, ord) : ord \in Listings(DOMAIN s.nodes)}

\* A store just constructed.
EmptyStore == Store(EmptyDict, <<>>, EmptyGraph, EmptyDict)

\* The edge load builds from one record, with attributes left out (not
\* the code).
load_edge_without_attributes(edge_data) ==
    GraphEdge(edge_data.source, edge_data.target, edge_data.type, EmptyDict,
              IF "weight" \in DOMAIN edge_data THEN edge_data.weight ELSE 1)

\* The edge load builds from one record of "edges".
load_edge(edge_data) ==
    GraphEdge(edge_data.source, edge_data.target, edge_data.type,
              IF "attributes" \in DOMAIN edge_data THEN edge_data.attributes
              ELSE EmptyDict,
              IF "weight" \in DOMAIN edge_data THEN edge_data.weight ELSE 1)

\* data.get(key, [])
ListOf(data, key) == IF key \in DOMAIN data THEN data[key] ELSE <<>>

\* The edge loop of load, from the i-th record on: a missing key raises
\* KeyError and a type of no EdgeType member ValueError.
RECURSIVE load_edges(_, _, _)
load_edges(s, edges, i) ==
    IF i > Len(edges) THEN Returned(s)
    ELSE IF ~({"source", "target", "type"} \subseteq DOMAIN edges[i])
    THEN Raised("KeyError")
    ELSE IF edges[i].type \notin EdgeTypeValues THEN Raised("ValueError")
    ELSE load_edges(add_edge(s, load_edge(edges[i])), edges, i + 1)

\* The node loop of load, from the i-th record on, followed by the edges.
RECURSIVE load_nodes(_, _, _)
load_nodes(s, data, i) ==
    LET nodes == ListOf(data, "nodes")
    IN IF i > Len(nodes) THEN load_edges(s, ListOf(data, "edges"), 1)
       ELSE IF ~({"id", "type"} \subseteq DOMAIN nodes[i])
       THEN Raised("KeyError")
       ELSE IF nodes[i].type \notin NodeTypeValues THEN Raised("ValueError")
       ELSE load_nodes(
                add_node(s, GraphNode(nodes[i].id, nodes[i].type,
                                      IF "attributes" \in DOMAIN nodes[i]
                                      THEN nodes[i].attributes ELSE EmptyDict)),
                data, i + 1)

\* SemanticMemory.load of the file f, into a store of the same backend:
\* open raises FileNotFoundError, json.load JSONDecodeError.
load(f) ==
    IF f.state = "absent" THEN Raised("FileNotFoundError")
    ELSE IF f.state = "garbage" THEN Raised("JSONDecodeError")
    ELSE load_nodes(EmptyStore, f.data, 1)

(***************************************************************************)
(* The VectorStore of src/tools/vector_store.py on its memory_fallback     *)
(* backend (ChromaDB not installed): _memory_store, a dict in insertion    *)
(* order kept as a sequence of Documents.  Scores are in millionths.       *)
(***************************************************************************)
Document(id, content, metadata) ==
    [id |-> id, content |-> content, metadata |-> metadata, embedding |-> None]

SearchResult(document, score) ==
    [document |-> document, score |-> score, distance |-> 0]

\* VectorStore.add_finding: a document without id gets str(uuid.uuid4()).
add_finding(m, doc, uuid) ==
    LET stored == IF doc.id = "" THEN [doc EXCEPT !.id = uuid] ELSE doc
    IN IF \E i \in 1..Len(m) : m[i].id = stored.id
       THEN [i \in 1..Len(m) |-> IF m[i].id = stored.id THEN stored ELSE m[i]]
       ELSE Append(m, stored)

\* set(text.lower().split())
Words(text) ==
    LET words == SplitFrom(StrLower(text), "", 1)
    IN {words[i] : i \in 1..Len(words)}

\* VectorStore._memory_search
_memory_search(m, query, n_results) ==
    LET query_words == Words(query)
        overlap(doc) == Cardinality(query_words \cap Words(doc.content))
        size == IF Cardinality(query_words) > 1 THEN Cardinality(query_words) ELSE 1
        matching == SelectSeq(m, LAMBDA doc : overlap(doc) > 0)
        results == [i \in 1..Len(matching) |->
                       SearchResult(matching[i],
                                    (overlap(matching[i]) * 1000000) \div size)]
    IN Take(SortByScore(results), n_results)

(***************************************************************************)
(* GraphRAGSystem, the facade over the store, the VectorStore and the      *)
(* policy.                                                                 *)
(***************************************************************************)
\* x, counted in 1 / unit of a ten-thousandth, to the nearest
\* ten-thousandth: round(score, 4).
Round4(x, unit) == (x + unit \div 2) \div unit

\* RetrievalResult.to_dict: the score rounded to four decimals (kept in
\* ten-thousandths).  Vector scores are in millionths, graph scores in
\* tenths, fused scores in 1 / (10 * RrfScale).
to_dict(r) ==
    [id |-> r.id, content |-> r.content,
     score |-> IF r.method = VECTOR THEN Round4(r.score, 100)
               ELSE IF r.method = GRAPH THEN r.score * 1000
               ELSE Round4(r.score * 1000, RrfScale),
     method |-> r.method, rank |-> r.rank, metadata |-> r.metadata]

\* The academic_papers loop of add_research_findings, from the i-th on.
RECURSIVE ingest_papers(_, _, _, _)
ingest_papers(s, v, papers, i) ==
    IF i > Len(papers) THEN [store |-> s, vectors |-> v]
    ELSE LET paper == papers[i]
             added == add_paper(s, paper)
             text == paper.title \o " " \o ""
         IN ingest_papers(added.store,
                          add_document(v, added.out,
                                       DictUpdate([text |-> text], paper)),
                          papers, i + 1)

\* The github_projects loop of add_research_findings, from the i-th on.
RECURSIVE ingest_projects(_, _, _, _)
ingest_projects(s, v, projects, i) ==
    IF i > Len(projects) THEN [store |-> s, vectors |-> v]
    ELSE LET project == projects[i]
             added == add_project(s, project)
             text == project.name \o " " \o ""
         IN ingest_projects(added.store,
                            add_document(v, added.out,
                                         DictUpdate([text |-> text], project)),
                            projects, i + 1)

\* GraphRAGSystem.add_research_findings: the store and the VectorStore after
\* the call (it returns None).  No other key of findings is read.
add_research_findings(s, v, findings) ==
    LET papers == ingest_papers(s, v, findings.academic_papers, 1)
    IN ingest_projects(papers.store, papers.vectors, findings.github_projects, 1)

\* [r.to_dict() for r in results]
ToDicts(results) == [i \in 1..Len(results) |-> to_dict(results[i])]

\* GraphRAGSystem.retrieve: the outcomes of a call, each with the value
\* returned and the entries appended to the policy's decision_history.
facade_retrieve(s, v, query, top_k, method) ==
    IF method = "agentic"
    THEN {[out |-> [results |-> ToDicts(r.out.results),
                    decision_info |-> r.out.decision_info],
           log |-> r.log] : r \in retrieve(s, v, query, top_k, None)}
    ELSE IF method = "vector"
    THEN {[out |-> [results |-> ToDicts(vector_search(v, query, top_k, 0)),
                    decision_info |-> [method_used |-> "vector",
                                       reasoning |-> "Direct vector search"]],
           log |-> <<>>]}
    ELSE IF method = "graph"
    THEN {[out |-> [results |-> ToDicts(results),
                    decision_info |-> [method_used |-> "graph",
                                       reasoning |-> "Direct graph search"]],
           log |-> <<>>] : results \in graph_search_outcomes(s, query, top_k, 2)}
    ELSE {[out |-> [results |-> ToDicts(results),
                    decision_info |-> [method_used |-> "hybrid",
                                       reasoning |-> "Direct hybrid search"]],
           log |-> <<>>] :
            results \in hybrid_search_outcomes(s, v, query, top_k, 5, 5)}

(***************************************************************************)
(* The inputs the calls are made with.                                     *)
(***************************************************************************)
ArxivIds == {"1", "2"}

\* Papers without authors or concepts (arxiv_id "" is a missing identity
\* field), and one paper with an author and a key concept.
PaperInputs ==
    [arxiv_id : ArxivIds \cup {""}, title : {"t1", "t2"},
     authors : {<<>>}, key_concepts : {<<>>}]
    \cup [arxiv_id : {"1"}, title : {"t1", "t2"},
          authors : {<<"Ann Lee">>}, key_concepts : {<<"RAG">>}]

\* The papers the queried stores are built from.
QueryPaperInputs ==
    [arxiv_id : ArxivIds, title : {"t1"},
     authors : {<<>>}, key_concepts : {<<>>, <<"RAG">>}]

\* The citations the queried stores are built from: a cycle and a self-loop.
QueryCitations == {<<"1", "2">>, <<"2", "1">>, <<"1", "1">>}

ProjectInputs ==
    [name : {"", "o/r"}, framework_type : {"LangGraph"},
     implements_papers : {<<"1">>}]

DiscussionInputs ==
    [platform : {"hn"}, url : {"u1"}, title : {"d1"},
     papers_discussed : {<<"2">>}]

\* Direct add_node calls: paper_1 re-added as a paper and as a concept.
NodeInputs ==
    {GraphNode("paper_1", type, [name |-> "n1"]) :
        type \in {ACADEMIC_PAPER, CONCEPT}}

\* Direct add_edge calls: paper_1 -> paper_2, of two kinds.
EdgeInputs ==
    {GraphEdge("paper_1", "paper_2", type, EmptyDict, 1) :
        type \in {CITES, INTRODUCES}}

\* The node ids the queries are called with; "paper_9" is never ingested.
QueryIds == {"paper_1", "concept_rag", "paper_9"}

EdgeKinds == {None, CITES, INTRODUCES}

Depths == {1, 2}

\* The top_k values find_related_papers is called with.
RelatedTopKs == {1, 2}

\* What the searched stores are built from: paper 1, ingested with the key
\* concept "agents"; paper_x, a node added without attributes; an edge from
\* the concept node to paper_x and a citation of paper 1 by paper_x.
RetrievePaperInputs ==
    {[arxiv_id |-> "1", title |-> "t1", authors |-> <<>>,
      key_concepts |-> <<"agents">>]}

RetrieveNodeInputs == {GraphNode("paper_x", ACADEMIC_PAPER, EmptyDict)}

RetrieveEdgeInputs ==
    {GraphEdge("concept_agents", "paper_x", INTRODUCES, EmptyDict, 1),
     GraphEdge("paper_x", "paper_1", CITES, EmptyDict, 1)}

\* The documents added to the VectorStore: one for paper 1, embedded by its
\* title, and one embedded by its text.
DocumentInputs ==
    {<<"paper_1", [title |-> "t1"]>>, <<"d3", [text |-> "graphs"]>>}

\* The stores the three searches are compared on: paper 1, an edge from its
\* concept to it, a citation out of it, and three documents.
SearchEdgeInputs ==
    {GraphEdge("concept_agents", "paper_1", INTRODUCES, EmptyDict, 1),
     GraphEdge("paper_1", "concept_agents", CITES, EmptyDict, 1)}

SearchDocumentInputs == DocumentInputs \cup {<<"d4", [text |-> "rag"]>>}

SearchQueries == {"agents"}

RetrieveQueries == {"agents", "The Agents survey"}

\* The expansion scenario: the concept node "agents" with an edge to
\* paper_p, and paper_p citing four papers, one of them with weight 2.
ExpandNodeInputs == {GraphNode("concept_agents", CONCEPT, [name |-> "agents"])}

ExpandEdgeInputs ==
    {GraphEdge("concept_agents", "paper_p", INTRODUCES, EmptyDict, 1),
     GraphEdge("paper_p", "paper_a", CITES, EmptyDict, 1),
     GraphEdge("paper_p", "paper_b", CITES, EmptyDict, 1),
     GraphEdge("paper_p", "paper_c", CITES, EmptyDict, 1),
     GraphEdge("paper_p", "paper_d", CITES, EmptyDict, 2)}

ExpandConcepts == {<<"agents">>}

\* The ranked lists _reciprocal_rank_fusion is applied to: the ids of a list
\* are distinct and a result's rank is its position, as in every list a
\* search returns.
FuseIds == {"a", "b", "c"}

RankedLists(method) ==
    {[rank \in 1..Len(ids) |->
         RetrievalResult(ids[rank], [title |-> ids[rank]], 0, method, rank, EmptyDict)] :
        ids \in {l \in UNION {[1..n -> FuseIds] : n \in 0..MaxResults} :
                    \A i, j \in 1..Len(l) : i # j => l[i] # l[j]}}

\* List weights, in tenths.
FuseWeights == {0, 4, 5, 6}

\* The citation scenario: paper 2506.12508 and three papers that cite it.
CitingIds == {"a", "b", "c"}

CitationPaperInputs ==
    [arxiv_id : CitingIds \cup {"2506.12508"}, title : {"t1"},
     authors : {<<>>}, key_concepts : {<<>>}]

CitationQueries == {"which papers cite 2506.12508?"}

\* The default top_k of AgenticRAG.retrieve.
DefaultTopK == 10

\* The method hints retrieve is called with: none, and each RetrievalMethod.
Hints == {None} \cup RetrievalMethods

AgenticQueries == {"agents", "which papers cite 2506.12508?"}

\* The queries the policy classifies: any combination of an exploratory, a
\* comparison, an identifier and a citation phrase (in that order, in mixed
\* case) in front of a topic.
ExploreParts == {"", "Survey of ", "State Of The Art "}
CompareParts == {"", "VS ", "Difference "}
IdentifierParts == {"", "arXiv ", "Paper: "}
CitationParts == {"", "Cite ", "Related To "}

DecideQueries ==
    {e \o c \o i \o r \o "agents" :
        e \in ExploreParts, c \in CompareParts,
        i \in IdentifierParts, r \in CitationParts}

\* The batches the facade ingests: a paper, a paper without arxiv_id in
\* front of it, a project and a discussion.
FacadePaper ==
    [arxiv_id |-> "1", title |-> "t1", authors |-> <<>>,
     key_concepts |-> <<"agents">>]

NamelessPaper ==
    [arxiv_id |-> "", title |-> "t2", authors |-> <<>>, key_concepts |-> <<>>]

FacadeProject ==
    [name |-> "o/r", framework_type |-> "LangGraph", implements_papers |-> <<>>]

FacadeDiscussion ==
    [platform |-> "hn", url |-> "u1", title |-> "d1", papers_discussed |-> <<"1">>]

FindingsInputs ==
    [academic_papers : {<<>>, <<FacadePaper>>, <<NamelessPaper, FacadePaper>>},
     github_projects : {<<>>, <<FacadeProject>>},
     community_discussions : {<<>>, <<FacadeDiscussion>>}]

\* The method argument of GraphRAGSystem.retrieve.
FacadeMethods == {"agentic", "vector", "graph", "hybrid"}

FacadeQueries == {"agents", "cite agents"}

\* The documents added to the fallback store (one without id), the id
\* uuid4 gives, and the searches made on it.
FindingInputs ==
    {Document("doc_1", "Agent Orchestration", EmptyDict),
     Document("doc_2", "agent memory", [type |-> "paper"]),
     Document("doc_3", "graph databases", EmptyDict),
     Document("", "orchestration of agent teams", EmptyDict)}

Uuids == {"uuid-1"}

FallbackQueries == {"agent orchestration", "Agent", ""}

FallbackResults == {1, 5}

\* What the persisted stores are built from: a paper with a key concept, a
\* paper without, and citations between them.
PersistPaperInputs ==
    {[arxiv_id |-> "1", title |-> "t1", authors |-> <<>>, key_concepts |-> <<"RAG">>],
     [arxiv_id |-> "2", title |-> "t2", authors |-> <<>>, key_concepts |-> <<>>]}

PersistCitations == {<<"1", "2">>, <<"2", "1">>}

\* The ways a written file gets damaged: one record loses a required key
\* or names a kind that does not exist, or the text is no longer JSON.
Damages ==
    {"node_without_id", "node_of_unknown_type", "edge_without_target",
     "edge_of_unknown_type", "not_json"}

\* What the interleaved calls are made with: a paper node, an edge out of
\* it, a document with a title and one whose title is None.
AtomicNodeInputs == {GraphNode("paper_1", ACADEMIC_PAPER, [title |-> "t1"])}

AtomicEdgeInputs == {GraphEdge("paper_1", "paper_2", CITES, EmptyDict, 1)}

AtomicDocumentInputs ==
    {<<"paper_1", [title |-> "t1"]>>, <<"d5", [title |-> None]>>}

\* The top_k values the searches are called with: the hybrid search asks
\* both retrievers for 2 * top_k results.
TopKs == 1..(MaxResults \div 2)

(***************************************************************************)
(* The state machine.                                                      *)
(***************************************************************************)
Init ==
    /\ use_networkx \in BOOLEAN
    /\ _nodes = EmptyDict
    /\ _edges = <<>>
    /\ graph = EmptyGraph
    /\ _adjacency = EmptyDict
    /\ ret = [op |-> "__init__", arg |-> None, raised |-> "none", out |-> None]
    /\ _documents = EmptyDict
    /\ _embeddings = <<>>
    /\ decision_history = <<>>
    /\ _memory_store = <<>>
    /\ file = NoFile
    /\ writer = Idle

\* A HybridRetriever about to fuse two ranked lists.
InitFuse ==
    /\ use_networkx \in BOOLEAN
    /\ _nodes = EmptyDict
    /\ _edges = <<>>
    /\ graph = EmptyGraph
    /\ _adjacency = EmptyDict
    /\ _documents = EmptyDict
    /\ _embeddings = <<>>
    /\ decision_history = <<>>
    /\ _memory_store = <<>>
    /\ file = NoFile
    /\ writer = Idle
    /\ \E vector_results \in RankedLists(VECTOR), graph_results \in RankedLists(GRAPH),
          vector_weight \in FuseWeights, graph_weight \in FuseWeights :
          ret = [op |-> "__init__",
                 arg |-> [vector_results |-> vector_results,
                          graph_results |-> graph_results,
                          vector_weight |-> vector_weight,
                          graph_weight |-> graph_weight],
                 raised |-> "none", out |-> None]

\* The store becomes s (the edge list stays within n edges).
CommitWithin(s, n) ==
    /\ Len(s.edges) <= n
    /\ _nodes' = s.nodes
    /\ _edges' = s.edges
    /\ graph' = s.graph
    /\ _adjacency' = s.adjacency
    /\ UNCHANGED <<use_networkx, index>>

\* The store becomes s (the edge list stays within the model's bound).
Commit(s) == CommitWithin(s, MaxEdges)

AddNode(node) ==
    /\ Commit(add_node(Current, node))
    /\ ret' = [op |-> "add_node", arg |-> node, raised |-> "none", out |-> None]

AddEdge(edge) ==
    /\ Commit(add_edge(Current, edge))
    /\ ret' = [op |-> "add_edge", arg |-> edge, raised |-> "none", out |-> None]

AddPaper(paper_data) ==
    /\ Commit(add_paper(Current, paper_data).store)
    /\ ret' = [op |-> "add_paper", arg |-> paper_data, raised |-> "none",
               out |-> add_paper(Current, paper_data).out]

AddProject(project_data) ==
    /\ Commit(add_project(Current, project_data).store)
    /\ ret' = [op |-> "add_project", arg |-> project_data, raised |-> "none",
               out |-> add_project(Current, project_data).out]

AddDiscussion(discussion_data) ==
    /\ Commit(add_discussion(Current, discussion_data).store)
    /\ ret' = [op |-> "add_discussion", arg |-> discussion_data, raised |-> "none",
               out |-> add_discussion(Current, discussion_data).out]

AddCitationEdge(citing_paper, cited_paper) ==
    /\ Commit(add_citation_edge(Current, citing_paper, cited_paper))
    /\ ret' = [op |-> "add_citation_edge",
               arg |-> [citing_paper |-> citing_paper, cited_paper |-> cited_paper],
               raised |-> "none", out |-> None]

GetNeighbors(node_id, edge_type, max_depth) ==
    /\ ret' = [op |-> "get_neighbors",
               arg |-> [node_id |-> node_id, edge_type |-> edge_type,
                        max_depth |-> max_depth],
               raised |-> get_neighbors(Current, node_id, edge_type, max_depth).raised,
               out |-> get_neighbors(Current, node_id, edge_type, max_depth).out]
    /\ UNCHANGED <<store, index>>

FindShortestPath(source, target) ==
    /\ \E path \in find_shortest_path(Current, source, target) :
          ret' = [op |-> "find_shortest_path",
                  arg |-> [source |-> source, target |-> target],
                  raised |-> "none", out |-> path]
    /\ UNCHANGED <<store, index>>

GetPagerank ==
    /\ ret' = [op |-> "get_pagerank", arg |-> None, raised |-> "none",
               out |-> get_pagerank(Current)]
    /\ UNCHANGED <<store, index>>

FindRelatedPapers(paper_id, top_k) ==
    /\ \E r \in {find_related_papers(Current, paper_id, top_k, ord) :
                      ord \in Listings(StoreIds(Current))} :
          ret' = [op |-> "find_related_papers",
                  arg |-> [paper_id |-> paper_id, top_k |-> top_k],
                  raised |-> r.raised, out |-> r.out]
    /\ UNCHANGED <<store, index>>

AddDocument(doc_id, content) ==
    /\ _documents' = add_document(CurrentVectors, doc_id, content).documents
    /\ _embeddings' = add_document(CurrentVectors, doc_id, content).embeddings
    /\ ret' = [op |-> "add_document",
               arg |-> [doc_id |-> doc_id, content |-> content],
               raised |-> "none", out |-> None]
    /\ UNCHANGED <<store, decision_history, _memory_store, file, writer>>

VectorSearch(query, top_k) ==
    /\ ret' = [op |-> "VectorStore.search",
               arg |-> [query |-> query, top_k |-> top_k],
               raised |-> "none",
               out |-> vector_search(CurrentVectors, query, top_k, 0)]
    /\ UNCHANGED <<store, index>>

GraphSearch(query, top_k) ==
    /\ \E results \in graph_search_outcomes(Current, query, top_k, 2) :
          ret' = [op |-> "GraphRetriever.search",
                  arg |-> [query |-> query, top_k |-> top_k],
                  raised |-> "none", out |-> results]
    /\ UNCHANGED <<store, index>>

HybridSearch(query, top_k) ==
    /\ \E results \in hybrid_search_outcomes(Current, CurrentVectors, query,
                                              top_k, 5, 5) :
          ret' = [op |-> "HybridRetriever.search",
                  arg |-> [query |-> query, top_k |-> top_k],
                  raised |-> "none", out |-> results]
    /\ UNCHANGED <<store, index>>

\* AgenticRAG.retrieve, with the query added to the index as a document
\* (not the code).
RetrieveIndexingQuery(query, top_k, method_hint) ==
    /\ Len(decision_history) < MaxDecisions
    /\ \E r \in retrieve(Current, CurrentVectors, query, top_k, method_hint) :
          /\ ret' = [op |-> "AgenticRAG.retrieve",
                     arg |-> [query |-> query, top_k |-> top_k,
                              method_hint |-> method_hint],
                     raised |-> r.raised, out |-> r.out]
          /\ decision_history' = decision_history \o r.log
    /\ _documents' = add_document(CurrentVectors, query, [text |-> query]).documents
    /\ _embeddings' = add_document(CurrentVectors, query, [text |-> query]).embeddings
    /\ UNCHANGED <<store, _memory_store, file, writer>>

Retrieve(query, top_k, method_hint) ==
    /\ Len(decision_history) < MaxDecisions
    /\ \E r \in retrieve(Current, CurrentVectors, query, top_k, method_hint) :
          /\ ret' = [op |-> "AgenticRAG.retrieve",
                     arg |-> [query |-> query, top_k |-> top_k,
                              method_hint |-> method_hint],
                     raised |-> r.raised, out |-> r.out]
          /\ decision_history' = decision_history \o r.log
    /\ UNCHANGED <<store, _documents, _embeddings, _memory_store, file, writer>>

\* AgenticRAG._decide_method, called on its own.
DecideMethod(query, hint) ==
    /\ ret' = [op |-> "AgenticRAG._decide_method",
               arg |-> [query |-> query, hint |-> hint],
               raised |-> "none", out |-> _decide_method(query, hint)]
    /\ UNCHANGED <<store, index>>

\* GraphRAGSystem.add_research_findings
AddResearchFindings(findings) ==
    LET after == add_research_findings(Current, CurrentVectors, findings)
    IN /\ Len(after.store.edges) <= MaxEdges
       /\ _nodes' = after.store.nodes
       /\ _edges' = after.store.edges
       /\ graph' = after.store.graph
       /\ _adjacency' = after.store.adjacency
       /\ _documents' = after.vectors.documents
       /\ _embeddings' = after.vectors.embeddings
       /\ ret' = [op |-> "add_research_findings", arg |-> findings,
                  raised |-> "none", out |-> None]
       /\ UNCHANGED <<use_networkx, decision_history, _memory_store, file, writer>>

\* GraphRAGSystem.retrieve
FacadeRetrieve(query, top_k, method) ==
    /\ Len(decision_history) < MaxDecisions
    /\ \E r \in facade_retrieve(Current, CurrentVectors, query, top_k, method) :
          /\ ret' = [op |-> "GraphRAGSystem.retrieve",
                     arg |-> [query |-> query, top_k |-> top_k, method |-> method],
                     raised |-> "none", out |-> r.out]
          /\ decision_history' = decision_history \o r.log
    /\ UNCHANGED <<store, _documents, _embeddings, _memory_store, file, writer>>

\* VectorStore.add_finding (src/tools/vector_store.py)
AddFinding(doc, uuid) ==
    /\ _memory_store' = add_finding(_memory_store, doc, uuid)
    /\ ret' = [op |-> "add_finding", arg |-> doc, raised |-> "none", out |-> None]
    /\ UNCHANGED <<store, _documents, _embeddings, decision_history, file, writer>>

\* VectorStore.search on the memory_fallback backend
MemorySearch(query, n_results) ==
    /\ ret' = [op |-> "_memory_search",
               arg |-> [query |-> query, n_results |-> n_results],
               raised |-> "none",
               out |-> _memory_search(_memory_store, query, n_results)]
    /\ UNCHANGED <<store, index>>

\* SemanticMemory.save
Save ==
    /\ \E data \in to_dict_outcomes(Current) :
          file' = [state |-> "json", data |-> data]
    /\ ret' = [op |-> "save", arg |-> None, raised |-> "none", out |-> None]
    /\ UNCHANGED <<store, _documents, _embeddings, decision_history,
                   _memory_store, writer>>

\* A record without one of its keys.
Without(record, key) == [k \in (DOMAIN record) \ {key} |-> record[k]]

\* The written file damaged outside the program: its first node or edge
\* record, or the whole text.
Damaged(f, damage) ==
    IF damage = "not_json" THEN [state |-> "garbage", data |-> EmptyDict]
    ELSE [f EXCEPT
            !.data.nodes[1] =
                IF damage = "node_without_id" THEN Without(@, "id")
                ELSE IF damage = "node_of_unknown_type"
                THEN [@ EXCEPT !.type = "gadget"]
                ELSE @,
            !.data.edges[1] =
                IF damage = "edge_without_target" THEN Without(@, "target")
                ELSE IF damage = "edge_of_unknown_type"
                THEN [@ EXCEPT !.type = "mentions"]
                ELSE @]

Damage(damage) ==
    /\ file.state = "json"
    /\ file.data.nodes # <<>>
    /\ file.data.edges # <<>>
    /\ \A i \in 1..Len(file.data.nodes) :
          "id" \in DOMAIN file.data.nodes[i]
              /\ file.data.nodes[i].type \in NodeTypeValues
    /\ \A i \in 1..Len(file.data.edges) :
          "target" \in DOMAIN file.data.edges[i]
              /\ file.data.edges[i].type \in EdgeTypeValues
    /\ file' = Damaged(file, damage)
    /\ ret' = [op |-> "damage", arg |-> damage, raised |-> "none", out |-> None]
    /\ UNCHANGED <<store, _documents, _embeddings, decision_history,
                   _memory_store, writer>>

\* SemanticMemory.load: the call returns a new store and leaves this one.
Load ==
    /\ ret' = [op |-> "load", arg |-> None,
               raised |-> load(file).raised, out |-> load(file).out]
    /\ UNCHANGED <<store, index>>

\* The store becomes s while a call is under way (the edge list stays
\* within the model's bound).
Put(s) ==
    /\ Len(s.edges) <= MaxEdges
    /\ _nodes' = s.nodes
    /\ _edges' = s.edges
    /\ graph' = s.graph
    /\ _adjacency' = s.adjacency
    /\ UNCHANGED <<use_networkx, _documents, _embeddings, decision_history,
                   _memory_store, file>>

\* A thread enters add_node and runs its first statement.
AddNodeBegin(node) ==
    /\ writer = Idle
    /\ Put(add_node_table(Current, node))
    /\ writer' = [at |-> "add_node", node |-> node]
    /\ ret' = ret

\* The thread inside add_node runs the rest of the call.
AddNodeEnd ==
    /\ writer.at = "add_node"
    /\ Put(add_node_graph(Current, writer.node))
    /\ writer' = Idle
    /\ ret' = [op |-> "add_node", arg |-> writer.node, raised |-> "none",
               out |-> None]

\* A thread enters add_edge and runs its first statement.
AddEdgeBegin(edge) ==
    /\ writer = Idle
    /\ Put(add_edge_list(Current, edge))
    /\ writer' = [at |-> "add_edge", edge |-> edge]
    /\ ret' = ret

\* The thread inside add_edge runs the rest of the call.
AddEdgeEnd ==
    /\ writer.at = "add_edge"
    /\ Put(add_edge_traversal(Current, writer.edge))
    /\ writer' = Idle
    /\ ret' = [op |-> "add_edge", arg |-> writer.edge, raised |-> "none",
               out |-> None]

\* A thread enters add_document and runs its first statement.
AddDocumentBegin(doc_id, content) ==
    /\ writer = Idle
    /\ _documents' = add_document_store(CurrentVectors, doc_id, content).documents
    /\ writer' = [at |-> "add_document", doc_id |-> doc_id, content |-> content]
    /\ ret' = ret
    /\ UNCHANGED <<store, _embeddings, decision_history, _memory_store, file>>

\* The thread inside add_document runs the rest of the call, which stores
\* the embedding or raises.
AddDocumentEnd ==
    /\ writer.at = "add_document"
    /\ LET rest == add_document_embed(CurrentVectors, writer.doc_id, writer.content)
       IN /\ _embeddings' = IF rest.raised = "none" THEN rest.out.embeddings
                            ELSE _embeddings
          /\ ret' = [op |-> "add_document",
                     arg |-> [doc_id |-> writer.doc_id, content |-> writer.content],
                     raised |-> rest.raised, out |-> None]
    /\ writer' = Idle
    /\ UNCHANGED <<store, _documents, decision_history, _memory_store, file>>

\* add_edge on the stores whose citations are expanded.
AddCitedEdge(edge) ==
    /\ CommitWithin(add_edge(Current, edge), MaxExpandEdges)
    /\ ret' = [op |-> "add_edge", arg |-> edge, raised |-> "none", out |-> None]

\* A dict kept in insertion order, as the mapping it is.
DictOf(d) ==
    [key \in {d[i].key : i \in 1..Len(d)} |->
        d[CHOOSE i \in 1..Len(d) : d[i].key = key].score]

FindRelevantNodes(concepts) ==
    /\ \E relevance \in {DictOf(_find_relevant_nodes(Current, concepts, ord)) :
                              ord \in Listings(ListedIds(Current, concepts))} :
          ret' = [op |-> "_find_relevant_nodes", arg |-> concepts,
                  raised |-> "none", out |-> relevance]
    /\ UNCHANGED <<store, index>>

\* _reciprocal_rank_fusion applied to the lists drawn at the start.
Fuse ==
    /\ ret.op = "__init__"
    /\ ret' = [op |-> "_reciprocal_rank_fusion", arg |-> ret.arg,
               raised |-> "none",
               out |-> _reciprocal_rank_fusion(ret.arg.vector_results,
                                               ret.arg.graph_results,
                                               ret.arg.vector_weight,
                                               ret.arg.graph_weight)]
    /\ UNCHANGED <<store, index>>

Next ==
    \/ \E node \in NodeInputs : AddNode(node)
    \/ \E edge \in EdgeInputs : AddEdge(edge)
    \/ \E paper_data \in PaperInputs : AddPaper(paper_data)
    \/ \E project_data \in ProjectInputs : AddProject(project_data)
    \/ \E discussion_data \in DiscussionInputs : AddDiscussion(discussion_data)
    \/ \E cited \in ArxivIds : AddCitationEdge("1", cited)

Spec == Init /\ [][Next]_vars

NextQuery ==
    \/ \E paper_data \in QueryPaperInputs : AddPaper(paper_data)
    \/ \E c \in QueryCitations : AddCitationEdge(c[1], c[2])
    \/ \E node_id \in QueryIds, edge_type \in EdgeKinds, max_depth \in Depths :
          GetNeighbors(node_id, edge_type, max_depth)
    \/ \E source \in QueryIds, target \in QueryIds : FindShortestPath(source, target)

SpecQuery == Init /\ [][NextQuery]_vars

\* The same stores, ranked: get_pagerank and find_related_papers.
NextRank ==
    \/ \E paper_data \in QueryPaperInputs : AddPaper(paper_data)
    \/ \E c \in QueryCitations : AddCitationEdge(c[1], c[2])
    \/ GetPagerank
    \/ \E paper_id \in ArxivIds, top_k \in RelatedTopKs :
          FindRelatedPapers(paper_id, top_k)

SpecRank == Init /\ [][NextRank]_vars

\* A store and a VectorStore under the three searches.
NextRetrieve ==
    \/ \E paper_data \in RetrievePaperInputs : AddPaper(paper_data)
    \/ \E node \in RetrieveNodeInputs : AddNode(node)
    \/ \E edge \in RetrieveEdgeInputs : AddEdge(edge)
    \/ \E d \in DocumentInputs : AddDocument(d[1], d[2])
    \/ \E query \in RetrieveQueries, top_k \in TopKs : VectorSearch(query, top_k)
    \/ \E query \in RetrieveQueries, top_k \in TopKs : GraphSearch(query, top_k)
    \/ \E query \in RetrieveQueries, top_k \in TopKs : HybridSearch(query, top_k)

SpecRetrieve == Init /\ [][NextRetrieve]_vars

\* The three searches over stores with more candidates than top_k.
NextSearch ==
    \/ \E paper_data \in RetrievePaperInputs : AddPaper(paper_data)
    \/ \E edge \in SearchEdgeInputs : AddEdge(edge)
    \/ \E d \in SearchDocumentInputs : AddDocument(d[1], d[2])
    \/ \E query \in SearchQueries, top_k \in TopKs : VectorSearch(query, top_k)
    \/ \E query \in SearchQueries, top_k \in TopKs : GraphSearch(query, top_k)
    \/ \E query \in SearchQueries, top_k \in TopKs : HybridSearch(query, top_k)

SpecSearch == Init /\ [][NextSearch]_vars

\* The citation scenario under AgenticRAG.retrieve without a hint.
NextCitation ==
    \/ \E paper_data \in CitationPaperInputs : AddPaper(paper_data)
    \/ \E citing \in CitingIds : AddCitationEdge(citing, "2506.12508")
    \/ \E query \in CitationQueries : Retrieve(query, DefaultTopK, None)

SpecCitation == Init /\ [][NextCitation]_vars

\* Citation expansion: _find_relevant_nodes on the expansion scenario.
NextExpand ==
    \/ \E node \in ExpandNodeInputs : AddNode(node)
    \/ \E edge \in ExpandEdgeInputs : AddCitedEdge(edge)
    \/ \E concepts \in ExpandConcepts : FindRelevantNodes(concepts)

SpecExpand == Init /\ [][NextExpand]_vars

\* Fusion of two ranked lists.
NextFuse == Fuse

SpecFuse == InitFuse /\ [][NextFuse]_vars

\* AgenticRAG.retrieve with and without hints over a small index.
NextAgentic ==
    \/ \E paper_data \in RetrievePaperInputs : AddPaper(paper_data)
    \/ \E d \in DocumentInputs : AddDocument(d[1], d[2])
    \/ \E query \in AgenticQueries, top_k \in TopKs, method_hint \in Hints :
          Retrieve(query, top_k, method_hint)

SpecAgentic == Init /\ [][NextAgentic]_vars

\* The facade: ingests of batches, and retrieve calls on the facade and on
\* its policy.
NextFacade ==
    \/ \E findings \in FindingsInputs : AddResearchFindings(findings)
    \/ \E query \in FacadeQueries, top_k \in TopKs, method \in FacadeMethods :
          FacadeRetrieve(query, top_k, method)
    \/ \E query \in FacadeQueries, top_k \in TopKs, method_hint \in Hints :
          Retrieve(query, top_k, method_hint)

SpecFacade == Init /\ [][NextFacade]_vars

\* Search without an embedding capability: the fallback store of
\* src/tools/vector_store.py and the VectorStore of the retrievers.
NextFallback ==
    \/ \E doc \in FindingInputs, uuid \in Uuids : AddFinding(doc, uuid)
    \/ \E query \in FallbackQueries, n_results \in FallbackResults :
          MemorySearch(query, n_results)
    \/ \E d \in DocumentInputs : AddDocument(d[1], d[2])
    \/ \E query \in RetrieveQueries, top_k \in TopKs : VectorSearch(query, top_k)

SpecFallback == Init /\ [][NextFallback]_vars

\* Persistence: stores are built, saved, the file is damaged, and loaded.
NextPersist ==
    \/ \E paper_data \in PersistPaperInputs : AddPaper(paper_data)
    \/ \E c \in PersistCitations : AddCitationEdge(c[1], c[2])
    \/ Save
    \/ \E damage \in Damages : Damage(damage)
    \/ Load

SpecPersist == Init /\ [][NextPersist]_vars

\* Threads without a lock: one inside a mutating call, statement by
\* statement, and readers that run between its statements.
NextAtomic ==
    \/ \E node \in AtomicNodeInputs : AddNodeBegin(node)
    \/ AddNodeEnd
    \/ \E edge \in AtomicEdgeInputs : AddEdgeBegin(edge)
    \/ AddEdgeEnd
    \/ \E d \in AtomicDocumentInputs : AddDocumentBegin(d[1], d[2])
    \/ AddDocumentEnd
    \/ \E node_id \in {"paper_1"}, edge_type \in EdgeKinds, max_depth \in Depths :
          GetNeighbors(node_id, edge_type, max_depth)
    \/ \E query \in SearchQueries, top_k \in TopKs : VectorSearch(query, top_k)

SpecAtomic == Init /\ [][NextAtomic]_vars

\* The policy's classification on its own.
\* Every kind of retrieval over a store and an index that are being built.
NextReadOnly ==
    \/ \E paper_data \in RetrievePaperInputs : AddPaper(paper_data)
    \/ \E d \in DocumentInputs : AddDocument(d[1], d[2])
    \/ \E query \in SearchQueries, top_k \in TopKs : VectorSearch(query, top_k)
    \/ \E query \in SearchQueries, top_k \in TopKs : GraphSearch(query, top_k)
    \/ \E query \in SearchQueries, top_k \in TopKs : HybridSearch(query, top_k)
    \/ \E query \in SearchQueries, top_k \in TopKs, method_hint \in Hints :
          Retrieve(query, top_k, method_hint)

SpecReadOnly == Init /\ [][NextReadOnly]_vars

NextDecide == \E query \in DecideQueries, hint \in Hints : DecideMethod(query, hint)

SpecDecide == Init /\ [][NextDecide]_vars

(***************************************************************************)
(* Properties.  ret describes the last call: its name (op), its arguments  *)
(* (arg), the exception it raised and the value it returned (out).         *)
(***************************************************************************)
\* The (source, target) pairs of the edge list, and those of one edge type.
EdgePairs == {<<_edges[i].source, _edges[i].target>> : i \in 1..Len(_edges)}

TypedEdgePairs(type) ==
    {<<_edges[i].source, _edges[i].target>> :
        i \in {j \in 1..Len(_edges) : _edges[j].type = type}}

\* The nodes one step after a frontier along the given pairs.
StepAlong(pairs, frontier) == {p[2] : p \in {q \in pairs : q[1] \in frontier}}

\* The nodes reached from a frontier by a path of 1..d of the given pairs.
RECURSIVE ReachWithin(_, _, _)
ReachWithin(pairs, frontier, d) ==
    IF d = 0 THEN {}
    ELSE StepAlong(pairs, frontier)
            \cup ReachWithin(pairs, StepAlong(pairs, frontier), d - 1)

\* The least number of pairs leading from a frontier (n steps from the
\* source) to target, or -1 when there is no such path.
RECURSIVE DistanceFrom(_, _, _, _)
DistanceFrom(pairs, frontier, target, n) ==
    IF target \in frontier THEN n
    ELSE IF n >= Cardinality(pairs) THEN -1
    ELSE DistanceFrom(pairs, StepAlong(pairs, frontier), target, n + 1)

\* Every edge of the edge list joins two nodes of the node table.
EdgeIntegrity ==
    \A i \in 1..Len(_edges) :
        _edges[i].source \in DOMAIN _nodes /\ _edges[i].target \in DOMAIN _nodes

\* C1 -- after any sequence of ingest calls and direct add_node / add_edge
\* calls, every edge of the store has its source and its target in the node
\* table.
C1_EdgeIntegrity == EdgeIntegrity

\* C2 -- an add_edge call whose source or target is not in the node table
\* raises InvalidReference and leaves the store unchanged.
C2_AddEdgeRejectsMissingEndpoint ==
    [][(/\ ret'.op = "add_edge"
        /\ \/ ret'.arg.source \notin DOMAIN _nodes
           \/ ret'.arg.target \notin DOMAIN _nodes)
       => (ret'.raised = "InvalidReference" /\ UNCHANGED store)]_vars

\* C3 -- get_neighbors on an id that is not in the node table returns the
\* empty set and raises nothing, for every edge kind and depth, in both
\* backends.
C3_UnknownNodeEmpty ==
    (ret.op = "get_neighbors" /\ ret.arg.node_id \notin DOMAIN _nodes)
        => (ret.raised = "none" /\ ret.out = {})

\* C4 -- ingesting a paper whose node is already in the store leaves exactly
\* one node with that paper id, and its attributes are those of this (the
\* most recent) ingest.
C4_IdempotentReingest ==
    [][(/\ ret'.op = "add_paper"
        /\ ret'.arg.arxiv_id # ""
        /\ PaperId(ret'.arg.arxiv_id) \in DOMAIN _nodes)
       => (/\ PaperId(ret'.arg.arxiv_id) \in DOMAIN _nodes'
           /\ Cardinality({n \in DOMAIN _nodes' :
                             _nodes'[n].id = PaperId(ret'.arg.arxiv_id)}) = 1
           /\ _nodes'[PaperId(ret'.arg.arxiv_id)].attributes
                 = PaperAttributes(ret'.arg)
           /\ use_networkx =>
                 \A f \in DOMAIN PaperAttributes(ret'.arg) :
                     graph'.node[PaperId(ret'.arg.arxiv_id)][f]
                         = PaperAttributes(ret'.arg)[f])]_vars

\* C4 witness: paper 1 was ingested with an author, then ingested again
\* without authors and with another title; the node holds the later values.
C4_Witness ==
    /\ ret.op = "add_paper"
    /\ ret.arg.arxiv_id = "1" /\ ret.arg.title = "t2" /\ ret.arg.authors = <<>>
    /\ "author_ann_lee" \in DOMAIN _nodes
    /\ _nodes["paper_1"].attributes.title = "t2"
    /\ _nodes["paper_1"].attributes.authors = <<>>

\* C5 -- an add_node call never changes the kind recorded for an id that is
\* already in the node table.
C5_KindImmutable ==
    [][ret'.op = "add_node"
       => \A id \in DOMAIN _nodes :
             id \in DOMAIN _nodes' /\ _nodes'[id].type = _nodes[id].type]_vars

\* The indices of the paper_1 -> paper_2 edges of the edge list.
PairInEdgeList ==
    {i \in 1..Len(_edges) :
        _edges[i].source = "paper_1" /\ _edges[i].target = "paper_2"}

\* The sum of the weights of the edges at the given indices.
RECURSIVE EdgeListWeight(_)
EdgeListWeight(indices) ==
    IF indices = {} THEN 0
    ELSE LET i == CHOOSE x \in indices : TRUE
         IN _edges[i].weight + EdgeListWeight(indices \ {i})

\* C6 -- with two Cites edges added for the same ordered pair of nodes,
\* neighbors(a, Cites, 1) is {b}, the traversal structure holds as many
\* a -> b Cites edges as the edge list, and the pair enters importance()
\* with the weight of every one of its edges.
C6_MultigraphFidelity ==
    (/\ {"paper_1", "paper_2"} \subseteq DOMAIN _nodes
     /\ Cardinality({i \in PairInEdgeList : _edges[i].type = CITES}) >= 2)
        => (/\ get_neighbors(Current, "paper_1", CITES, 1) = Returned({"paper_2"})
            /\ TraversalEdgeCount(Current, "paper_1", "paper_2", CITES)
                  = Cardinality({i \in PairInEdgeList : _edges[i].type = CITES})
            /\ ImportanceWeight(Current, "paper_1", "paper_2")
                  = EdgeListWeight(PairInEdgeList))

\* C7 -- a get_neighbors call on a node of the store returns, and what a
\* call returns for depth d is contained in what it returns for depth d + 1.
C7_DepthMonotone ==
    /\ (ret.op = "get_neighbors" /\ ret.arg.node_id \in DOMAIN _nodes)
          => ret.raised = "none"
    /\ (ret.op = "get_neighbors" /\ ret.raised = "none")
          => LET deeper == get_neighbors(Current, ret.arg.node_id,
                                         ret.arg.edge_type, ret.arg.max_depth + 1)
             IN deeper.raised = "none" /\ ret.out \subseteq deeper.out

\* C7 witness: a depth-1 call on a node of the store whose result is not
\* empty and grows strictly at depth 2.
C7_Witness ==
    /\ ret.op = "get_neighbors"
    /\ ret.arg.node_id \in DOMAIN _nodes
    /\ ret.arg.max_depth = 1
    /\ ret.out # {}
    /\ ret.out # get_neighbors(Current, ret.arg.node_id, ret.arg.edge_type, 2).out

\* C8 -- with an edge kind k given, get_neighbors(n, k, d) on a node of the
\* store is exactly the set of nodes reached from n by a path of 1..d edges
\* that are all of kind k.
C8_KindFilteredTraversal ==
    (/\ ret.op = "get_neighbors"
     /\ ret.arg.edge_type # None
     /\ ret.arg.node_id \in DOMAIN _nodes
     /\ EdgeIntegrity)
        => (/\ ret.raised = "none"
            /\ ret.out = ReachWithin(TypedEdgePairs(ret.arg.edge_type),
                                     {ret.arg.node_id}, ret.arg.max_depth))

\* C9 -- find_shortest_path between two nodes of the store returns [] when
\* the target cannot be reached, and otherwise a sequence from source to
\* target along edges of the store with the least possible number of edges.
C9_ShortestPath ==
    (/\ ret.op = "find_shortest_path"
     /\ ret.arg.source \in DOMAIN _nodes
     /\ ret.arg.target \in DOMAIN _nodes)
        => LET d == DistanceFrom(EdgePairs, {ret.arg.source}, ret.arg.target, 0)
           IN IF d = -1 THEN ret.out = <<>>
              ELSE /\ Len(ret.out) = d + 1
                   /\ ret.out[1] = ret.arg.source
                   /\ ret.out[Len(ret.out)] = ret.arg.target
                   /\ \A i \in 1..(Len(ret.out) - 1) :
                         <<ret.out[i], ret.out[i + 1]>> \in EdgePairs

\* C9 witness: paper_1 reaches concept_rag directly and also through
\* paper_2; the call returned the one-edge path.
C9_Witness ==
    /\ ret.op = "find_shortest_path"
    /\ ret.arg.source = "paper_1" /\ ret.arg.target = "concept_rag"
    /\ {"paper_1", "paper_2", "concept_rag"} \subseteq DOMAIN _nodes
    /\ {<<"paper_1", "paper_2">>, <<"paper_2", "concept_rag">>,
        <<"paper_1", "concept_rag">>} \subseteq EdgePairs
    /\ ret.out = <<"paper_1", "concept_rag">>

\* C10 -- find_shortest_path returns [] and raises nothing whenever its
\* source or its target is not in the node table, source = target included.
C10_AbsentEndpointEmpty ==
    (/\ ret.op = "find_shortest_path"
     /\ \/ ret.arg.source \notin DOMAIN _nodes
        \/ ret.arg.target \notin DOMAIN _nodes)
        => (ret.raised = "none" /\ ret.out = <<>>)

\* The sum of the values of a dict of numbers.
RECURSIVE SumValues(_)
SumValues(d) ==
    IF DOMAIN d = {} THEN 0
    ELSE LET k == CHOOSE x \in DOMAIN d : TRUE
         IN d[k] + SumValues([j \in DOMAIN d \ {k} |-> d[j]])

\* C11 -- on a store with at least one node, get_pagerank returns a score
\* for every node of the node table, no score is negative, and the scores
\* add up to 1, in the adjacency-list fallback as in the NetworkX branch.
C11_PageRankConservation ==
    (ret.op = "get_pagerank" /\ DOMAIN _nodes # {})
        => IF ret.out.backend = "networkx"
           THEN DOMAIN _nodes \subseteq ret.out.nodes
           ELSE /\ DOMAIN _nodes \subseteq DOMAIN ret.out.centrality
                /\ \A n \in DOMAIN ret.out.centrality : ret.out.centrality[n] >= 0
                /\ SumValues(ret.out.centrality) = 1

\* The paper nodes that p cites, and those that introduce a concept node
\* which p introduces as well, by the edge list.
CitedBy(p) ==
    {q \in DOMAIN _nodes :
        /\ _nodes[q].type = ACADEMIC_PAPER
        /\ <<p, q>> \in TypedEdgePairs(CITES)}

CoIntroducing(p) ==
    {q \in DOMAIN _nodes \ {p} :
        /\ _nodes[q].type = ACADEMIC_PAPER
        /\ \E c \in DOMAIN _nodes :
              /\ _nodes[c].type = CONCEPT
              /\ {<<p, c>>, <<q, c>>} \subseteq TypedEdgePairs(INTRODUCES)}

\* The list holds the paper node q with a score of at least x tenths.
ListsPaper(list, q, x) ==
    \E i \in 1..Len(list) : PaperId(list[i].id) = q /\ list[i].score >= x

SortedByScore(list) ==
    \A i \in 1..(Len(list) - 1) : list[i].score >= list[i + 1].score

\* C12 -- find_related_papers(p, top_k) on a paper of the store returns a
\* list sorted by score descending; when top_k is at least the number of
\* candidates, the list holds every paper that introduces a concept p also
\* introduces with a score of at least 0.5, and every paper p cites with a
\* score of at least 1.0.
C12_RelatedPapers ==
    (/\ ret.op = "find_related_papers"
     /\ PaperId(ret.arg.paper_id) \in DOMAIN _nodes
     /\ _nodes[PaperId(ret.arg.paper_id)].type = ACADEMIC_PAPER)
        => LET p == PaperId(ret.arg.paper_id)
           IN /\ ret.raised = "none"
              /\ SortedByScore(ret.out)
              /\ ret.arg.top_k >= Cardinality(CitedBy(p) \cup CoIntroducing(p))
                    => /\ \A q \in CoIntroducing(p) : ListsPaper(ret.out, q, 5)
                       /\ \A q \in CitedBy(p) : ListsPaper(ret.out, q, 10)

\* The list holds the node id with a score of at least x.
ListsId(list, id, x) ==
    \E i \in 1..Len(list) : list[i].id = id /\ list[i].score >= x

\* C13 -- when the query has a token c (longer than 3 characters, not a stop
\* word) whose node concept_<c> is in the store, GraphRetriever.search
\* returns every node that has an INTRODUCES edge to concept_<c> with a
\* score of at least 1.0, provided top_k is at least the number of scored
\* candidates (here: of nodes of the store, which no candidate count
\* exceeds).
C13_ConceptCandidates ==
    (/\ ret.op = "GraphRetriever.search"
     /\ ret.arg.top_k >= Cardinality(DOMAIN _nodes))
        => \A c \in {w \in {SplitFrom(StrLower(ret.arg.query), "", 1)[i] :
                                i \in 1..Len(SplitFrom(StrLower(ret.arg.query), "", 1))} :
                        Len(w) > 3 /\ w \notin stop_words} :
              ("concept_" \o c) \in DOMAIN _nodes
                 => \A e \in DOMAIN _nodes :
                       <<e, "concept_" \o c>> \in TypedEdgePairs(INTRODUCES)
                          => ListsId(ret.out, e, 10)

\* The paper nodes with a CITES edge into the given node, by the edge list.
CitingPapers(target) ==
    {p \in DOMAIN _nodes :
        /\ _nodes[p].type = ACADEMIC_PAPER
        /\ <<p, target>> \in TypedEdgePairs(CITES)}

\* C14 -- for the query "which papers cite 2506.12508?" without a hint, on a
\* store in which three distinct papers each have a CITES edge into
\* paper_2506.12508, retrieve selects the graph method, its results include
\* the three citing papers, and every result carries the method graph.
C14_CitationQuery ==
    (/\ ret.op = "AgenticRAG.retrieve"
     /\ ret.arg.query = "which papers cite 2506.12508?"
     /\ ret.arg.method_hint = None
     /\ "paper_2506.12508" \in DOMAIN _nodes
     /\ Cardinality(CitingPapers("paper_2506.12508") \ {"paper_2506.12508"}) >= 3)
        => (/\ ret.raised = "none"
            /\ ret.out.decision_info.method_used = GRAPH
            /\ \A p \in CitingPapers("paper_2506.12508") :
                  \E i \in 1..Len(ret.out.results) : ret.out.results[i].id = p
            /\ \A i \in 1..Len(ret.out.results) :
                  ret.out.results[i].method = GRAPH)

\* The score a relevance dict holds for an id, 0 when it has none.
ScoreOf(relevance, id) == IF id \in DOMAIN relevance THEN relevance[id] ELSE 0

\* The CITES edges x -> n of the edge list, and the largest weight among
\* them.
CitesEdges(x, n) ==
    {i \in 1..Len(_edges) :
        _edges[i].source = x /\ _edges[i].target = n /\ _edges[i].type = CITES}

CitesWeight(x, n) ==
    CHOOSE w \in {_edges[i].weight : i \in CitesEdges(x, n)} :
        \A i \in CitesEdges(x, n) : _edges[i].weight <= w

\* The candidates of a concept list: the "paper_" ids the matched concept
\* nodes point to.
Candidates(concepts) ==
    {n \in UNION {StepAlong(EdgePairs, {ConceptId(concepts[i])}) :
                     i \in {j \in 1..Len(concepts) :
                               ConceptId(concepts[j]) \in DOMAIN _nodes}} :
        StartsWith(n, "paper_")}

\* With n the only candidate, the CITES neighbours of n that got the +0.5 of
\* the expansion: what is left of their score after the +1.0 of a candidate
\* and the +0.3 per CITES edge into n.
Expanded(relevance, n) ==
    {x \in StepAlong(TypedEdgePairs(CITES), {n}) :
        ScoreOf(relevance, x)
            - (IF x = n THEN 10 ELSE 0) - 3 * Cardinality(CitesEdges(x, n)) = 5}

\* C15 -- for a candidate found by concept matching (here the only one), at
\* most 3 of its outgoing CITES neighbours receive +0.5, no neighbour left
\* out has a heavier CITES edge than one that received it, and every node
\* with a CITES edge into the candidate receives +0.3.
C15_CitationExpansion ==
    (ret.op = "_find_relevant_nodes" /\ Cardinality(Candidates(ret.arg)) = 1)
        => LET n == CHOOSE x \in Candidates(ret.arg) : TRUE
               cited == StepAlong(TypedEdgePairs(CITES), {n})
           IN /\ Cardinality(Expanded(ret.out, n)) <= 3
              /\ \A x \in Expanded(ret.out, n) :
                    \A y \in cited \ Expanded(ret.out, n) :
                        CitesWeight(n, x) >= CitesWeight(n, y)
              /\ \A x \in StoreIds(Current) :
                    CitesEdges(x, n) # {} => ScoreOf(ret.out, x) >= 3

\* The ids of a result list, and the position of an id in it.
IdsOf(results) == {results[i].id : i \in 1..Len(results)}

PositionOf(results, id) == CHOOSE i \in 1..Len(results) : results[i].id = id

\* weight / (rrf_k + position) for an id of the list, nothing otherwise.
Contribution(results, weight, id) ==
    IF id \in IdsOf(results)
    THEN ReciprocalRank(weight, PositionOf(results, id))
    ELSE 0

\* C16 -- the dict _reciprocal_rank_fusion returns has exactly the ids of
\* the two lists as keys, and the value of an id is the sum, over the lists
\* that contain it, of that list's weight / (rrf_k + rank in that list), with
\* the same rrf_k for both lists.
C16_FusionFormula ==
    ret.op = "_reciprocal_rank_fusion"
        => /\ {ret.out[i].key : i \in 1..Len(ret.out)}
                 = IdsOf(ret.arg.vector_results) \cup IdsOf(ret.arg.graph_results)
           /\ \A i, j \in 1..Len(ret.out) :
                 i # j => ret.out[i].key # ret.out[j].key
           /\ \A i \in 1..Len(ret.out) :
                 ret.out[i].score
                    = Contribution(ret.arg.vector_results, ret.arg.vector_weight,
                                   ret.out[i].key)
                      + Contribution(ret.arg.graph_results, ret.arg.graph_weight,
                                     ret.out[i].key)

\* C16 witness: lists with different weights fused, "a" second in the
\* vector list and first in the graph list, "b" in the vector list only.
C16_Witness ==
    /\ ret.op = "_reciprocal_rank_fusion"
    /\ ret.arg.vector_weight = 4 /\ ret.arg.graph_weight = 6
    /\ Len(ret.arg.vector_results) = 2 /\ Len(ret.arg.graph_results) = 1
    /\ ret.arg.vector_results[1].id = "b"
    /\ ret.arg.vector_results[2].id = "a"
    /\ ret.arg.graph_results[1].id = "a"
    /\ DictOf(ret.out) = ("b" :> ReciprocalRank(4, 1))
                            @@ ("a" :> ReciprocalRank(4, 2) + ReciprocalRank(6, 1))

\* The fused score of the only item of one list, ranked first, the other
\* list being empty: as a vector result and as a graph result.
FirstInOneList(weight) ==
    {_reciprocal_rank_fusion(
         <<RetrievalResult("a", [title |-> "a"], 0, VECTOR, 1, EmptyDict)>>,
         <<>>, weight, weight)[1].score,
     _reciprocal_rank_fusion(
         <<>>, <<RetrievalResult("a", [title |-> "a"], 0, GRAPH, 1, EmptyDict)>>,
         weight, weight)[1].score}

\* C17 -- with equal, non-negative list weights, an item ranked first in
\* both lists has a fused score at least as high as an item that is ranked
\* first in one list and absent from the other.
C17_FusionMonotone ==
    (/\ ret.op = "_reciprocal_rank_fusion"
     /\ ret.arg.vector_weight = ret.arg.graph_weight
     /\ ret.arg.vector_weight >= 0
     /\ ret.arg.vector_results # <<>> /\ ret.arg.graph_results # <<>>
     /\ ret.arg.vector_results[1].id = ret.arg.graph_results[1].id)
        => \A single \in FirstInOneList(ret.arg.vector_weight) :
              DictOf(ret.out)[ret.arg.vector_results[1].id] >= single

\* C17 witness: equal positive weights, "a" first in both lists, and its
\* fused score twice that of an item ranked first in one list only.
C17_Witness ==
    /\ ret.op = "_reciprocal_rank_fusion"
    /\ ret.arg.vector_weight = 5 /\ ret.arg.graph_weight = 5
    /\ Len(ret.arg.vector_results) >= 2 /\ Len(ret.arg.graph_results) >= 2
    /\ ret.arg.vector_results[1].id = "a" /\ ret.arg.graph_results[1].id = "a"
    /\ \A single \in FirstInOneList(5) : DictOf(ret.out)["a"] = 2 * single

\* The last call was one of the three searches.
Searched ==
    ret.op \in {"VectorStore.search", "GraphRetriever.search",
                "HybridRetriever.search"}

\* C18 -- for every store, query and top_k >= 1, the list the hybrid search
\* returns has at most top_k results and is sorted by non-increasing fused
\* score; the same holds, with their own scores, for the vector search and
\* the graph search.
C18_BoundedSorted ==
    (Searched /\ ret.arg.top_k >= 1)
        => Len(ret.out) <= ret.arg.top_k /\ SortedByScore(ret.out)

\* C18 witness: a hybrid search with top_k = 2 over three documents and a
\* graph that yields candidates too; at least three ids were fused, two
\* results came back, the first with the higher fused score.
C18_Witness ==
    /\ ret.op = "HybridRetriever.search"
    /\ ret.arg.top_k = 2
    /\ Cardinality(DOMAIN _documents) = 3
    /\ \E graph_results \in graph_search_outcomes(Current, ret.arg.query, 4, 2) :
          /\ graph_results # <<>>
          /\ Len(_reciprocal_rank_fusion(
                    vector_search(CurrentVectors, ret.arg.query, 4, 0),
                    graph_results, 5, 5)) >= 3
    /\ Len(ret.out) = 2
    /\ ret.out[1].score > ret.out[2].score

\* C19 -- in every list a search returns (vector, graph or hybrid), the
\* ranks are 1..N in list order, without gaps.
C19_DenseRanks ==
    Searched => \A i \in 1..Len(ret.out) : ret.out[i].rank = i

\* C20 -- when retrieve is given a method hint from the method enumeration,
\* the path executed is the hinted one (every result carries the hinted
\* method) and the decision reports that method with confidence 1.0,
\* whatever the query.
C20_CallerOverride ==
    (ret.op = "AgenticRAG.retrieve" /\ ret.arg.method_hint \in RetrievalMethods)
        => /\ ret.raised = "none"
           /\ ret.out.decision_info.method_used = ret.arg.method_hint
           /\ ret.out.decision_info.confidence = 100
           /\ \A i \in 1..Len(ret.out.results) :
                 ret.out.results[i].method = ret.arg.method_hint

\* The rule vocabularies of the policy, in cascade order.
CitationWords == {"cite", "citation", "reference", "related to"}
IdentifierMarkers == {"arxiv", "paper:"}
ComparisonWords == {"vs", "versus", "compare", "difference"}
ExploratoryWords == {"overview", "survey", "state of the art", "recent advances"}

\* The last call classified a query without a hint.
Classified == ret.op = "AgenticRAG._decide_method" /\ ret.arg.hint = None

\* The decision is Hybrid with these weights (tenths) and confidence
\* (hundredths).
IsHybrid(decision, vector_weight, graph_weight, confidence) ==
    /\ decision.method = HYBRID
    /\ decision.vector_weight = vector_weight
    /\ decision.graph_weight = graph_weight
    /\ decision.confidence = confidence

\* C21 -- without a hint the policy is a first-match-wins cascade over the
\* lower-cased query: citation words give Graph at 0.8; else an identifier
\* marker gives Vector at 0.9; else comparison words give Hybrid {0.5, 0.5}
\* at 0.7; else exploratory words give Hybrid {0.4, 0.6} at 0.75; else
\* Hybrid {0.5, 0.5} at 0.5.  Confidence is within [0, 1] and Hybrid
\* weights sum to 1.
C21_PolicyCascade ==
    Classified =>
        LET q == StrLower(ret.arg.query)
            d == ret.out
            cites == ContainsAny(q, CitationWords)
            names == ContainsAny(q, IdentifierMarkers)
            compares == ContainsAny(q, ComparisonWords)
            explores == ContainsAny(q, ExploratoryWords)
        IN /\ cites => d.method = GRAPH /\ d.confidence = 80
           /\ (~cites /\ names) => d.method = VECTOR /\ d.confidence = 90
           /\ (~cites /\ ~names /\ compares) => IsHybrid(d, 5, 5, 70)
           /\ (~cites /\ ~names /\ ~compares /\ explores) => IsHybrid(d, 4, 6, 75)
           /\ (~cites /\ ~names /\ ~compares /\ ~explores) => IsHybrid(d, 5, 5, 50)
           /\ d.confidence \in 0..100
           /\ d.method = HYBRID => d.vector_weight + d.graph_weight = 10

\* C21 witness: a query with words of all four vocabularies, classified
\* by the first rule.
C21_Witness ==
    /\ Classified
    /\ ret.arg.query = "Survey of VS arXiv Cite agents"
    /\ ret.out.method = GRAPH
    /\ ret.out.confidence = 80

\* The last call was a retrieve call, on the policy or on the facade.
Retrieved ==
    ret.op \in {"AgenticRAG.retrieve", "GraphRAGSystem.retrieve"}
        /\ ret.raised = "none"

\* C22 -- every retrieve call, on the policy or on the facade with any
\* method argument, appends one decision record to the policy's log: after
\* a retrieve call the log is not empty and its last record is the record
\* of that call's query.
C22_DecisionLog ==
    Retrieved =>
        /\ decision_history # <<>>
        /\ decision_history[Len(decision_history)].query = ret.arg.query

\* The elements of a list.
Elements(list) == {list[i] : i \in 1..Len(list)}

\* The last call was an ingest of a batch through the facade.
Ingested == ret.op = "add_research_findings"

\* The node ids of the entities of a batch that carry their identity field.
EntityIds(findings) ==
    {PaperId(paper.arxiv_id) :
        paper \in {x \in Elements(findings.academic_papers) : x.arxiv_id # ""}}
    \cup {ProjectId(project.name) :
        project \in {x \in Elements(findings.github_projects) : x.name # ""}}
    \cup {DiscussionId(discussion.platform, discussion.url) :
        discussion \in Elements(findings.community_discussions)}

\* C23 -- after an ingest through the facade every paper, project and
\* discussion of the batch has a graph node and a document under the id of
\* that node, and every document id of the VectorStore is the id of a node.
C23_FacadeSynchronised ==
    /\ Ingested =>
         EntityIds(ret.arg) \subseteq (DOMAIN _nodes) \cap (DOMAIN _documents)
    /\ (DOMAIN _documents) \subseteq (DOMAIN _nodes)

\* The entities of a batch whose identity field is missing or empty.
Malformed(findings) ==
    {i \in 1..Len(findings.academic_papers) : findings.academic_papers[i].arxiv_id = ""}

\* C24 -- an ingest of a batch with a paper without arxiv_id skips that
\* paper (no document is stored for it), ingests the other papers of the
\* batch, and reports the number of skipped entities to the caller.
C24_MalformedSkipped ==
    (Ingested /\ Malformed(ret.arg) # {}) =>
        /\ "" \notin DOMAIN _documents
        /\ \A paper \in Elements(ret.arg.academic_papers) :
              paper.arxiv_id # ""
                  => PaperId(paper.arxiv_id) \in (DOMAIN _nodes) \cap (DOMAIN _documents)
        /\ ret.out = Cardinality(Malformed(ret.arg))

\* |query_tokens /\ doc_tokens| / max(1, |query_tokens|), in millionths.
TokenOverlap(query, content) ==
    LET shared == Cardinality(Words(query) \cap Words(content))
        size == Cardinality(Words(query))
    IN (shared * 1000000) \div (IF size = 0 THEN 1 ELSE size)

\* The result's metadata marks it as a token-overlap match.
MarkedTokenOverlap(result) ==
    /\ "metadata" \in DOMAIN result
    /\ "similarity_metric" \in DOMAIN result.metadata
    /\ result.metadata.similarity_metric = "token_overlap"

\* C25 -- without an embedding capability a search scores each document by
\* |query_tokens /\ doc_tokens| / max(1, |query_tokens|), within [0, 1],
\* returns every document sharing a token with the query (when n_results
\* allows) with a non-zero score, and marks each result's metadata with
\* similarity_metric = token_overlap.
C25_FallbackSearch ==
    /\ ret.op = "_memory_search" =>
         /\ \A i \in 1..Len(ret.out) :
               /\ ret.out[i].score
                      = TokenOverlap(ret.arg.query, ret.out[i].document.content)
               /\ ret.out[i].score \in 1..1000000
               /\ MarkedTokenOverlap(ret.out[i])
         /\ LET sharing == {i \in 1..Len(_memory_store) :
                               Words(ret.arg.query)
                                   \cap Words(_memory_store[i].content) # {}}
            IN Cardinality(sharing) <= ret.arg.n_results
                   => \A i \in sharing :
                         \E j \in 1..Len(ret.out) :
                            ret.out[j].document = _memory_store[i]
    /\ ret.op = "VectorStore.search" =>
         \A i \in 1..Len(ret.out) : MarkedTokenOverlap(ret.out[i])

\* The file is a save of the store as it is now.
SavedNow == file.state = "json" /\ file.data \in to_dict_outcomes(Current)

\* The ids the restored store is queried with: its papers, its concept and
\* an id that is in no store.
PersistIds == {"paper_1", "paper_2", "concept_rag", "paper_9"}

\* Both stores give the same answers to get_neighbors and
\* find_shortest_path.
SameAnswers(s, t) ==
    /\ \A node_id \in PersistIds, edge_type \in EdgeKinds, max_depth \in Depths :
          get_neighbors(s, node_id, edge_type, max_depth)
              = get_neighbors(t, node_id, edge_type, max_depth)
    /\ \A source \in PersistIds, target \in PersistIds :
          find_shortest_path(s, source, target) = find_shortest_path(t, source, target)

ParsableNode(node_data) ==
    {"id", "type"} \subseteq DOMAIN node_data /\ node_data.type \in NodeTypeValues

ParsableEdge(edge_data) ==
    {"source", "target", "type"} \subseteq DOMAIN edge_data
        /\ edge_data.type \in EdgeTypeValues

\* The file without its unparsable records.
Repaired(f) ==
    [f EXCEPT !.data.nodes = SelectSeq(@, ParsableNode),
              !.data.edges = SelectSeq(@, ParsableEdge)]

\* C27 -- load of a parsable file with an unparsable record skips that
\* record and restores all the others; load of a file that is not
\* parsable at all fails and returns no store.
C27_CorruptFile ==
    ret.op = "load" =>
        /\ (file.state = "json" /\ Repaired(file) # file) =>
               /\ ret.raised = "none"
               /\ ret.out.nodes = load(Repaired(file)).out.nodes
               /\ ret.out.edges = load(Repaired(file)).out.edges
        /\ file.state = "garbage" => (ret.raised # "none" /\ ret.out = None)

\* The edge is in the traversal structure of the backend in use.
Traversable(edge) ==
    IF use_networkx
    THEN <<edge.source, edge.target, edge.type>> \in DOMAIN graph.adj
    ELSE \E i \in 1..Len(AdjGet(_adjacency, edge.source)) :
            /\ AdjGet(_adjacency, edge.source)[i].target = edge.target
            /\ \E j \in 1..Len(AdjGet(_adjacency, edge.source)[i].edges) :
                  AdjGet(_adjacency, edge.source)[i].edges[j] = edge

\* C28 -- no state a thread can observe holds a partially applied
\* mutation: every edge of the edge list is in the traversal structure,
\* every node of the node table is in the graph, and every stored document
\* has its embedding, whatever the other threads are in the middle of and
\* whichever call was abandoned.
C28_AtomicMutation ==
    /\ \A i \in 1..Len(_edges) : Traversable(_edges[i])
    /\ use_networkx => (DOMAIN _nodes) \subseteq (DOMAIN graph.node)
    /\ DOMAIN _documents = {_embeddings[i].key : i \in 1..Len(_embeddings)}

\* The store after the step.
After == Store(_nodes', _edges', graph', _adjacency')

\* C29 -- ingest is idempotent on the whole store: an add_paper that comes
\* right after an add_paper of the same paper leaves the node table as it
\* was and the stats' edge count per kind as they were.
C29_IngestIdempotent ==
    [][(/\ ret.op = "add_paper"
        /\ ret'.op = "add_paper"
        /\ ret'.arg = ret.arg)
       => /\ _nodes' = _nodes
          /\ _count_edge_types(After) = _count_edge_types(Current)]_vars

\* The retrieve and search calls.
RetrievalOps ==
    {"VectorStore.search", "GraphRetriever.search", "HybridRetriever.search",
     "AgenticRAG.retrieve"}

\* The Graph Store's nodes and edges (with the traversal structure the
\* edges are kept in) and the Embedding Index's documents and embeddings.
Stores == <<_nodes, _edges, graph, _adjacency, _documents, _embeddings>>

\* C30 -- retrieval is read-only on the stores: a vector, graph, hybrid or
\* agentic retrieve call, with any query and top_k, leaves the Graph
\* Store's nodes and edges and the Embedding Index's documents and
\* embeddings unchanged (the decision log is free to change).
C30_RetrievalReadOnly ==
    [][ret'.op \in RetrievalOps => UNCHANGED Stores]_Stores

\* An agentic retrieve call has returned results from a store with edges
\* and an index with documents, and has logged its decision.
C30_Witness ==
    /\ ret.op = "AgenticRAG.retrieve"
    /\ ret.raised = "none"
    /\ ret.out # <<>>
    /\ _edges # <<>>
    /\ DOMAIN _documents # {}
    /\ decision_history # <<>>

====
